---- MODULE Spec2Model ----
(***************************************************************************)
(* The pull-request review pipeline: the orchestrator's webhook handler    *)
(* (orchestrator/pr.go), its stage clients (git.go, pr-agent.go, the       *)
(* scan client, summarizer.go, the comment poster) and the scan service    *)
(* (semgrep/main.go) the scan stage talks to.                              *)
(*                                                                         *)
(* One webhook request is followed from its arrival to the handler's       *)
(* response.  Every external call is two steps, its start and its return;  *)
(* what the callee answers is the environment's choice.  The pipeline      *)
(* deadline and the webhook client's disconnect are events of their own    *)
(* that may fall between any two steps.                                    *)
(***************************************************************************)
EXTENDS Naturals, Sequences, FiniteSets

\* ------------------------------------------------------------------ bounds

\* The longest findings list the markdown's sections are checked on.
MaxSectionFindings == 6

\* The largest number of minutes, of either sign, HTTP_TIMEOUT_MINUTES is
\* set to.
MaxMinutes == 40

\* How many requests the source-control adapter is followed through.
MaxRequests == 2

\* Longest findings list one scanner RPC answers with.
MaxFindings == 2

\* ------------------------------------------------------------ webhook input

Methods == {"POST", "GET"}

WebhookActions == {"opened", "reopened", "synchronize", "closed"}

\* pr.go:59: the three actions that start a pipeline.
TriggerActions == {"opened", "reopened", "synchronize"}

\* The decoded githubPREvent (pr.go:12-39), the fields the pipeline reads.
Events ==
  [ action    : WebhookActions,
    number    : {42},
    repoOwner : {"acme"},
    repoName  : {"widget"},
    headOwner : {"fork-u"},
    headName  : {"widget"},
    headRef   : {"feat-x"} ]

NoEvent ==
  [ action |-> "", number |-> 0, repoOwner |-> "", repoName |-> "",
    headOwner |-> "", headName |-> "", headRef |-> "" ]

\* The zero PRMetadata.
NoMeta ==
  [ repo_owner |-> "", repo_name |-> "", pr_number |-> 0,
    head_repo_owner |-> "", head_repo_name |-> "",
    source_branch |-> "", local_path |-> <<>> ]

\* pr.go:68-78: the metadata literal.  The head repository's owner and name
\* are not among the fields it sets, so they keep their zero value.
BuildMeta(ev) ==
  [ repo_owner      |-> ev.repoOwner,
    repo_name       |-> ev.repoName,
    pr_number       |-> ev.number,
    head_repo_owner |-> "",
    head_repo_name  |-> "",
    source_branch   |-> ev.headRef,
    local_path      |-> <<>> ]

\* A destination that also depends on the source branch.
DestWithBranch(m) ==
  <<"tmp", m.repo_owner, m.repo_name, m.pr_number, m.source_branch>>

\* A name as the hyphen-free pieces a "-" separates in it.
Segs(name) ==
  CASE name = "acme-x" -> <<"acme", "x">>
    [] name = "x-y" -> <<"x", "y">>
    [] OTHER -> <<name>>

\* git.go:25-30: the destination directory, <tmp>/<owner>-<repo>-pr<n>: the
\* path as the pieces its "-" separate, the last one standing for pr<n>.
\* The empty tuple is the empty path.
Dest(m) == <<"tmp">> \o Segs(m.repo_owner) \o Segs(m.repo_name) \o <<m.pr_number>>

\* git.go:35-39: the clone URL, from the metadata's head coordinates.
CloneURL(m) == <<"https://github.com", m.head_repo_owner, m.head_repo_name>>

\* ------------------------------------------------------------------ stages

Stages ==
  <<"snapshot", "describe", "review", "collect", "scan", "synthesize", "post">>

StageSet == {Stages[i] : i \in 1..Len(Stages)}

\* The stages that post to a downstream service.
Services == {"describe", "review", "scan", "synthesize", "post"}

\* Where a stage client can fail (pr-agent.go:33-56, summarizer.go:52-76, the
\* poster's 36-54): encoding the payload, creating the request, the transport,
\* a status >= 300, decoding the answer.
ReplyKinds == {"ok", "encode", "create", "http", "status", "decode"}

\* The failures that happen before the request leaves the client.
BuildKinds == {"encode", "create"}

DescriptionOutputs == {"desc_a", "desc_b"}
ReviewOutputs == {"review_a"}
SummaryOutputs == {"final_a", "final_b"}

\* ------------------------------------------------------- snapshot trees

\* A file of the cloned tree: the directories above it (from the snapshot
\* root), its name, its extension as filepath.Ext gives it, whether
\* os.ReadFile succeeds on it, and whether it is larger than 1 MiB.
FGo == [dirs |-> <<>>, base |-> "main.go", ext |-> ".go", readable |-> TRUE, big |-> FALSE]
FReadme == [dirs |-> <<>>, base |-> "README.md", ext |-> ".md", readable |-> TRUE, big |-> FALSE]
FVendored == [dirs |-> <<"vendor">>, base |-> "lib.go", ext |-> ".go", readable |-> TRUE, big |-> FALSE]
FUpper == [dirs |-> <<"src">>, base |-> "App.PY", ext |-> ".PY", readable |-> TRUE, big |-> FALSE]

FBig == [dirs |-> <<>>, base |-> "big.go", ext |-> ".go", readable |-> TRUE, big |-> TRUE]
FSecret == [dirs |-> <<>>, base |-> "secret.py", ext |-> ".py", readable |-> FALSE, big |-> FALSE]
FDotDir == [dirs |-> <<".github">>, base |-> "check.py", ext |-> ".py", readable |-> TRUE, big |-> FALSE]
FNested == [dirs |-> <<"src", "node_modules">>, base |-> "index.js", ext |-> ".js", readable |-> TRUE, big |-> FALSE]

\* The files a walk may meet.
WalkFiles == {FGo, FReadme, FVendored, FUpper, FBig, FSecret, FDotDir, FNested}

\* The trees a clone may leave in the snapshot directory.
Trees == { {FReadme, FVendored}, {FGo, FReadme, FUpper, FVendored} }

\* A skip list that forgets vendor.
SkipDirsNoVendor ==
  {".git", "node_modules", "__pycache__", ".venv", "venv", "dist", "build"}

\* The scan client's collectCodeFiles, lines 178-180: the directory names
\* the walk does not descend into.
SkipDirs ==
  {".git", "node_modules", "vendor", "__pycache__", ".venv", "venv", "dist", "build"}

\* lines 151-167 of the same function.
SupportedExts ==
  {".go", ".py", ".js", ".ts", ".jsx", ".tsx", ".java", ".rb", ".php", ".cs",
   ".c", ".cpp", ".cc", ".h", ".hpp"}

\* strings.ToLower on the extensions of the model's files.
ExtToLower(e) ==
  CASE e = ".PY" -> ".py"
    [] e = ".GO" -> ".go"
    [] e = ".Js" -> ".js"
    [] OTHER -> e

UnderSkippedDir(f) == \E i \in 1..Len(f.dirs) : f.dirs[i] \in SkipDirs

\* filepath.Rel(repoPath, path): the key of the file map.
RelPath(f) == <<f.dirs, f.base>>

\* A collector that gives up at the first file it cannot read.
collectCodeFilesStrict(t, walkErr) ==
  IF walkErr \/ \E g \in t : /\ ~UnderSkippedDir(g)
                              /\ ExtToLower(g.ext) \in SupportedExts
                              /\ ~g.readable
  THEN [err |-> TRUE, files |-> {}]
  ELSE [ err   |-> FALSE,
         files |-> { RelPath(f) : f \in
                       { g \in t : /\ ~UnderSkippedDir(g)
                                   /\ ExtToLower(g.ext) \in SupportedExts } } ]

\* collectCodeFiles: the walk over the tree.  walkErr is an error the walk
\* itself reports (line 170), which ends it (lines 211-213).
collectCodeFiles(t, walkErr) ==
  IF walkErr THEN [err |-> TRUE, files |-> {}]
  ELSE [ err   |-> FALSE,
         files |-> { RelPath(f) : f \in
                       { g \in t : /\ ~UnderSkippedDir(g)
                                   /\ ExtToLower(g.ext) \in SupportedExts
                                   /\ g.readable } } ]

NoCollected == [err |-> FALSE, files |-> {}]

\* ----------------------------------------------------------- scan results

ZeroSeverity ==
  [blocker |-> 0, critical |-> 0, major |-> 0, minor |-> 0, info |-> 0]

\* A markdown body the code holds as a constant string.
StaticMd(t) == [kind |-> "static", text |-> t, table |-> <<>>, sections |-> <<>>]

\* The text of the scan client's generateHeuristicOutput (lines 220-240): the
\* note that scanning encountered issues and the best-practice reminders.
HeuristicText == "client: scanning encountered issues; best practices"

\* The text of the scan service's generateFallbackMarkdown
\* (semgrep/main.go:572-594): the same note and reminders, in a string
\* literal of its own.
FallbackText == "service: scanning encountered issues; best practices"

generateFallbackMarkdown == StaticMd(FallbackText)

generateHeuristicOutput ==
  [findings_markdown |-> StaticMd(HeuristicText), severity |-> ZeroSeverity]

NoScan == [findings_markdown |-> StaticMd(""), severity |-> ZeroSeverity]

\* ------------------------------------------------------- the scan service

\* semgrep/main.go:212-216: the configurations, in the order they are tried.
semgrepConfigs == <<"p/default", "p/security-audit", "p/ci">>

\* The raw severity labels the scanner answers with here.
SpecLabels == {"ERROR", "note"}

RuleIds == {"rule-1"}

\* A semgrepResult (semgrep/main.go:82-93): its rule and its raw severity.
Findings == [check_id : RuleIds, severity : SpecLabels]

\* The lists of at most n elements of S.
ListsOver(S, n) == UNION { [1..k -> S] : k \in 0..n }

\* The findings lists of at most n findings.
ListsUpTo(n) == ListsOver(Findings, n)

\* Raw severity labels a scanner may answer with: the labels the switch of
\* semgrep/main.go:264-275 names, in several spellings, and labels it does
\* not name, the empty one among them.
RawLabels ==
  {"blocker", "BLOCKER", "ERROR", "critical", "Warning", "MAJOR", "note",
   "MINOR", "INFO", "HIGH", ""}

\* semgrepResults over all the raw labels.
RawFindings == [check_id : RuleIds, severity : RawLabels]

FindingLists == ListsUpTo(MaxFindings)

\* strings.ToLower on the severity labels of the model.
ToLower(l) ==
  CASE l = "BLOCKER" -> "blocker"
    [] l = "Blocker" -> "blocker"
    [] l = "ERROR" -> "error"
    [] l = "Error" -> "error"
    [] l = "CRITICAL" -> "critical"
    [] l = "WARNING" -> "warning"
    [] l = "Warning" -> "warning"
    [] l = "MAJOR" -> "major"
    [] l = "NOTE" -> "note"
    [] l = "Note" -> "note"
    [] l = "MINOR" -> "minor"
    [] l = "INFO" -> "info"
    [] l = "HIGH" -> "high"
    [] OTHER -> l

\* A switch without the default case: an unnamed label is counted nowhere.
BucketNoDefault(l) ==
  CASE ToLower(l) = "blocker" -> "blocker"
    [] ToLower(l) \in {"error", "critical"} -> "critical"
    [] ToLower(l) \in {"warning", "major"} -> "major"
    [] ToLower(l) \in {"note", "minor"} -> "minor"
    [] OTHER -> "none"

\* A switch on the label as the scanner spelled it.
BucketCaseSensitive(l) ==
  CASE l = "blocker" -> "blocker"
    [] l \in {"error", "critical"} -> "critical"
    [] l \in {"warning", "major"} -> "major"
    [] l \in {"note", "minor"} -> "minor"
    [] OTHER -> "info"

\* semgrep/main.go:264-275 (and again 442-454, 479-491): the switch on the
\* lower-cased label.
Bucket(l) ==
  CASE ToLower(l) = "blocker" -> "blocker"
    [] ToLower(l) \in {"error", "critical"} -> "critical"
    [] ToLower(l) \in {"warning", "major"} -> "major"
    [] ToLower(l) \in {"note", "minor"} -> "minor"
    [] OTHER -> "info"

BucketCount(rs, b) == Cardinality({i \in 1..Len(rs) : Bucket(rs[i].severity) = b})

\* semgrep/main.go:261-276: performScan's severity summary.
SeveritySummary(rs) ==
  [ blocker  |-> BucketCount(rs, "blocker"),
    critical |-> BucketCount(rs, "critical"),
    major    |-> BucketCount(rs, "major"),
    minor    |-> BucketCount(rs, "minor"),
    info     |-> BucketCount(rs, "info") ]

\* Every non-zero count in bold.
formatCountBoldNonZero(count, shouldBold) == [n |-> count, bold |-> count > 0]

\* semgrep/main.go:565-570.
formatCount(count, shouldBold) == [n |-> count, bold |-> shouldBold /\ count > 0]

\* A grouping that puts each finding in front of the earlier ones.
RECURSIVE IssuesOfReversed(_, _)
IssuesOfReversed(rs, b) ==
  IF rs = <<>> THEN <<>>
  ELSE IF Bucket(Head(rs).severity) = b
       THEN IssuesOfReversed(Tail(rs), b) \o <<Head(rs)>>
       ELSE IssuesOfReversed(Tail(rs), b)

\* semgrep/main.go:471-492: the findings of one bucket, in arrival order.
RECURSIVE IssuesOf(_, _)
IssuesOf(rs, b) ==
  IF rs = <<>> THEN <<>>
  ELSE IF Bucket(Head(rs).severity) = b
       THEN <<Head(rs)>> \o IssuesOf(Tail(rs), b)
       ELSE IssuesOf(Tail(rs), b)

\* semgrep/main.go:540 and 544: the minor section lists the first 5.
MinorLimit == 5

\* semgrep/main.go:553 and 557: the info section lists the first 3.
InfoLimit == 3

\* One limit for both truncated sections.
SectionLimitSame(b) ==
  CASE b = "minor" -> MinorLimit
    [] b = "info" -> MinorLimit
    [] OTHER -> 0

\* 0 stands for "no limit" (the blocker, critical and major sections).
SectionLimit(b) ==
  CASE b = "minor" -> MinorLimit
    [] b = "info" -> InfoLimit
    [] OTHER -> 0

\* One section of the markdown (semgrep/main.go:494-560): the entries written
\* and the N of the "and N more" line, 0 when the line is not written.
Section(rs, b) ==
  LET issues == IssuesOf(rs, b)
      lim    == SectionLimit(b)
      cut    == lim > 0 /\ Len(issues) > lim
  IN [ bucket |-> b,
       items  |-> IF cut THEN SubSeq(issues, 1, lim) ELSE issues,
       more   |-> IF cut THEN Len(issues) - lim ELSE 0 ]

BucketOrder == <<"blocker", "critical", "major", "minor", "info">>

\* A count of the markdown that does not know the label "note".
MarkdownBucketWithoutNote(l) ==
  CASE ToLower(l) = "blocker" -> "blocker"
    [] ToLower(l) \in {"error", "critical"} -> "critical"
    [] ToLower(l) \in {"warning", "major"} -> "major"
    [] ToLower(l) = "minor" -> "minor"
    [] OTHER -> "info"

\* semgrep/main.go:441-454: the switch of formatSemgrepMarkdown's own count.
MarkdownBucket(l) ==
  CASE ToLower(l) = "blocker" -> "blocker"
    [] ToLower(l) \in {"error", "critical"} -> "critical"
    [] ToLower(l) \in {"warning", "major"} -> "major"
    [] ToLower(l) \in {"note", "minor"} -> "minor"
    [] OTHER -> "info"

\* semgrep/main.go:439-455: the count of one bucket in that pass.
MarkdownCount(rs, b) ==
  Cardinality({i \in 1..Len(rs) : MarkdownBucket(rs[i].severity) = b})

RECURSIVE SectionsFrom(_, _)
SectionsFrom(rs, i) ==
  IF i > Len(BucketOrder) THEN <<>>
  ELSE IF IssuesOf(rs, BucketOrder[i]) = <<>>
       THEN SectionsFrom(rs, i + 1)
       ELSE <<Section(rs, BucketOrder[i])>> \o SectionsFrom(rs, i + 1)

\* semgrep/main.go:432-563: the markdown of a findings list: the heading,
\* the counts table from the function's own count (439-469) and the sections.
formatSemgrepMarkdown(rs) ==
  IF Len(rs) = 0 THEN StaticMd("No security issues found by Semgrep.")
  ELSE [ kind     |-> "findings",
         text     |-> "Semgrep Summary",
         table    |-> << formatCount(MarkdownCount(rs, "blocker"), TRUE),
                         formatCount(MarkdownCount(rs, "critical"), TRUE),
                         formatCount(MarkdownCount(rs, "major"), TRUE),
                         formatCount(MarkdownCount(rs, "minor"), FALSE),
                         formatCount(MarkdownCount(rs, "info"), FALSE) >>,
         sections |-> SectionsFrom(rs, 1) ]

\* Where callSemgrepMCP can fail (semgrep/main.go:312-368).
RpcErrorKinds ==
  {"marshal", "create", "http", "status", "decode", "rpcerror", "nocontent", "parse"}

\* What one RPC attempt meets: the failure, or "ok" with the results the
\* scanner found.
RpcOutcomes == [kind : RpcErrorKinds \cup {"ok"}, results : FindingLists]

\* The same over all the raw labels.
RawOutcomes ==
  [kind : RpcErrorKinds \cup {"ok"}, results : ListsOver(RawFindings, MaxFindings)]

\* A content text that is not JSON read as a scan without findings.
callSemgrepMCPLenientParse(o) ==
  IF o.kind \in {"ok", "parse"} THEN [err |-> "", results |-> IF o.kind = "ok" THEN o.results ELSE <<>>]
  ELSE [err |-> o.kind, results |-> <<>>]

\* semgrep/main.go:298-371: the attempt's return values.
callSemgrepMCP(o) ==
  IF o.kind = "ok" THEN [err |-> "", results |-> o.results]
  ELSE [err |-> o.kind, results |-> <<>>]

\* A performScan that forgets lastError.
ShapeResponseIgnoreErrors(parsed, lastError) ==
  IF Len(parsed) = 0 THEN
    [ status |-> "success",
      findings_markdown |-> StaticMd("No security issues found by Semgrep."),
      severity |-> ZeroSeverity,
      findings_count |-> 0,
      error |-> "" ]
  ELSE
    [ status |-> "success",
      findings_markdown |-> formatSemgrepMarkdown(parsed),
      severity |-> SeveritySummary(parsed),
      findings_count |-> Len(parsed),
      error |-> "" ]

\* A performScan that looks at lastError before it looks at parsed.
ShapeResponseErrorFirst(parsed, lastError) ==
  IF lastError THEN
    [ status |-> "error",
      findings_markdown |-> generateFallbackMarkdown,
      severity |-> ZeroSeverity,
      findings_count |-> 0,
      error |-> "Semgrep scan failed for all configurations" ]
  ELSE IF Len(parsed) = 0 THEN
    [ status |-> "success",
      findings_markdown |-> StaticMd("No security issues found by Semgrep."),
      severity |-> ZeroSeverity,
      findings_count |-> 0,
      error |-> "" ]
  ELSE
    [ status |-> "success",
      findings_markdown |-> formatSemgrepMarkdown(parsed),
      severity |-> SeveritySummary(parsed),
      findings_count |-> Len(parsed),
      error |-> "" ]

\* semgrep/main.go:241-296: performScan after the loop.
ShapeResponse(parsed, lastError) ==
  IF Len(parsed) = 0 THEN
    IF lastError THEN
      [ status |-> "error",
        findings_markdown |-> generateFallbackMarkdown,
        severity |-> ZeroSeverity,
        findings_count |-> 0,
        error |-> "Semgrep scan failed for all configurations" ]
    ELSE
      [ status |-> "success",
        findings_markdown |-> StaticMd("No security issues found by Semgrep."),
        severity |-> ZeroSeverity,
        findings_count |-> 0,
        error |-> "" ]
  ELSE
    [ status |-> "success",
      findings_markdown |-> formatSemgrepMarkdown(parsed),
      severity |-> SeveritySummary(parsed),
      findings_count |-> Len(parsed),
      error |-> "" ]

\* semgrep/main.go:182-190: the answer to an empty file map.
NoFilesResponse ==
  [ status |-> "success",
    findings_markdown |-> StaticMd("No code files found to scan."),
    severity |-> ZeroSeverity,
    findings_count |-> 0,
    error |-> "" ]

NoScanResponse ==
  [ status |-> "", findings_markdown |-> StaticMd(""), severity |-> ZeroSeverity,
    findings_count |-> 0, error |-> "" ]

\* A handler that answers a scan that failed with a server error.
HandlerStatusByResult(resp) == IF resp.status = "error" THEN 500 ELSE 200

\* semgrep/main.go:171-177: scanHandler encodes whatever performScan
\* returned and writes no status of its own, so the status is 200.
HandlerStatus(resp) == 200

\* The service's state for the request it is handling: where performScan
\* is (idle, loop, done), the index of the next configuration, whether the
\* loop's lastError is set, its parsed, the attempts made, the response and
\* the HTTP status written (0 before any is).
SvcIdle ==
  [ pc |-> "idle", idx |-> 1, lastError |-> FALSE, parsed |-> <<>>, log |-> <<>>,
    resp |-> NoScanResponse, http |-> 0 ]

\* A loop without the break of line 237: every configuration is tried and
\* the last one with findings wins.
LoopPassNoBreak(sv, o) ==
  LET r      == callSemgrepMCP(o)
      hit    == r.err = "" /\ Len(r.results) > 0
      lastE  == r.err # "" \/ sv.lastError
      prsd   == IF hit THEN r.results ELSE sv.parsed
      ended  == sv.idx = Len(semgrepConfigs)
      entry  == [config |-> semgrepConfigs[sv.idx], err |-> r.err # "",
                 results |-> r.results]
  IN [ pc        |-> IF ended THEN "done" ELSE "loop",
       idx       |-> sv.idx + 1,
       lastError |-> lastE,
       parsed    |-> prsd,
       log       |-> Append(sv.log, entry),
       resp      |-> IF ended THEN ShapeResponse(prsd, lastE) ELSE sv.resp,
       http      |-> IF ended THEN HandlerStatus(ShapeResponse(prsd, lastE))
                     ELSE sv.http ]

\* semgrep/main.go:221-239: one pass of the loop over the configurations,
\* given what the attempt met; after the last pass, or at the break, the
\* response is shaped.
LoopPass(sv, o) ==
  LET r      == callSemgrepMCP(o)
      hit    == r.err = "" /\ Len(r.results) > 0
      lastE  == r.err # "" \/ sv.lastError
      prsd   == IF hit THEN r.results ELSE sv.parsed
      ended  == hit \/ sv.idx = Len(semgrepConfigs)
      entry  == [config |-> semgrepConfigs[sv.idx], err |-> r.err # "",
                 results |-> r.results]
  IN [ pc        |-> IF ended THEN "done" ELSE "loop",
       idx       |-> sv.idx + 1,
       lastError |-> lastE,
       parsed    |-> prsd,
       log       |-> Append(sv.log, entry),
       resp      |-> IF ended THEN ShapeResponse(prsd, lastE) ELSE sv.resp,
       http      |-> IF ended THEN HandlerStatus(ShapeResponse(prsd, lastE))
                     ELSE sv.http ]

\* A performScan without the check for an empty file map.
AcceptScanNoEmptyCheck(req) ==
  IF Len(req.repo_path) = 0 THEN
    [SvcIdle EXCEPT !.pc = "rejected", !.http = 400]
  ELSE
    [SvcIdle EXCEPT !.pc = "loop"]

\* semgrep/main.go:149-190: scanHandler and the start of performScan for a
\* POST whose body decodes.  (The status written is 200 unless repo_path is
\* empty.)
AcceptScan(req) ==
  IF Len(req.repo_path) = 0 THEN
    [SvcIdle EXCEPT !.pc = "rejected", !.http = 400]
  ELSE IF req.files = {} THEN
    [SvcIdle EXCEPT !.pc = "done", !.resp = NoFilesResponse,
                    !.http = HandlerStatus(NoFilesResponse)]
  ELSE
    [SvcIdle EXCEPT !.pc = "loop"]

\* A CallSemgrep that falls back whenever the service reports an error.
ScanResultOnAnyError(kind, resp) ==
  IF kind # "ok" THEN generateHeuristicOutput
  ELSE IF resp.error # ""
       THEN generateHeuristicOutput
  ELSE [findings_markdown |-> resp.findings_markdown, severity |-> resp.severity]

\* The scan client's lines 104-143: what CallSemgrep returns once client.Do
\* has returned, by how the exchange ended and the response decoded.
ScanResult(kind, resp) ==
  IF kind # "ok" THEN generateHeuristicOutput
  ELSE IF resp.error # "" /\ resp.findings_markdown = StaticMd("")
       THEN generateHeuristicOutput
  ELSE [findings_markdown |-> resp.findings_markdown, severity |-> resp.severity]

\* ------------------------------------------------------------------- state

VARIABLES
  req,       \* the webhook request: its method, whether its body decodes,
             \* the action of its event
  pc,        \* the handler's position: idle, a stage, resolved, responded
  phase,     \* of the stage at pc: ready (not started) or inflight
  meta,      \* the pipeline's PRMetadata
  response,  \* what the handler wrote: [status, body], status 0 before
  calls,     \* per service, the requests the stage client was asked to make
  payload,   \* per service, the body of the last request built for it
  clones,    \* git clone invocations
  tree,      \* the files in the snapshot directory
  collected, \* the collector's result
  desc,      \* the describe stage's markdown
  review,    \* the review stage's markdown
  semgrep,   \* the scan stage's output
  summary,   \* the synthesis stage's markdown
  posted,    \* the post stage returned success
  svc,       \* the scan service's handling of the scan stage's request
  trace,     \* the stage starts and returns, in order
  perr,      \* the stage whose error processPR returned, "" if none
  expired,   \* the pipeline context's deadline has passed
  reqCtx,    \* the webhook request's context: live, disconnected, returned
  observer,  \* the goroutine of pr.go:92: none, waiting, exited
  warned,    \* the "webhook client disconnected" warning was logged
  cloneCmd,  \* the last git clone command: its URL, branch and destination
  runs,      \* concurrent pipelines at their snapshot stage, by name
  disk,      \* per snapshot directory, whose clone's files it holds
  adp,       \* the source-control adapter: its configuration and requests
  client     \* the orchestrator's start: environment, configuration, HTTP client

pipeVars ==
  <<req, pc, phase, meta, response, calls, payload, clones, cloneCmd, tree,
    collected, desc, review, semgrep, summary, posted, svc, trace, perr>>

\* The state of the programs and runs the pipeline above does not touch.
sideVars == <<runs, disk, adp, client>>

vars == <<pipeVars, expired, reqCtx, observer, warned, sideVars>>

\* No clone command was run yet.
NoClone == [url |-> <<>>, branch |-> "", dest |-> <<>>]

\* git.go:46-53: git clone --depth=1 --branch <SourceBranch> <cloneURL> <dest>.
CloneCommand(m) == [url |-> CloneURL(m), branch |-> m.source_branch, dest |-> Dest(m)]

NoRuns == <<>>

NoDisk == <<>>

NoAdapter == [pc |-> "off"]

NoClient == [pc |-> "off"]

NoResponse == [status |-> 0, body |-> ""]

NoPayload == [sent |-> FALSE]

NoRequest == [method |-> "", bodyOK |-> FALSE, action |-> ""]

\* One orchestrator, its pipeline not started.
InitPipeline ==
  /\ req = NoRequest
  /\ pc = "idle"
  /\ phase = "ready"
  /\ meta = NoMeta
  /\ response = NoResponse
  /\ calls = [s \in Services |-> 0]
  /\ payload = [s \in Services |-> NoPayload]
  /\ clones = 0
  /\ tree = {}
  /\ collected = NoCollected
  /\ desc = ""
  /\ review = ""
  /\ semgrep = NoScan
  /\ summary = ""
  /\ posted = FALSE
  /\ svc = SvcIdle
  /\ trace = <<>>
  /\ perr = ""
  /\ expired = FALSE
  /\ reqCtx = "live"
  /\ observer = "none"
  /\ warned = FALSE
  /\ cloneCmd = NoClone

Init ==
  /\ InitPipeline
  /\ runs = NoRuns
  /\ disk = NoDisk
  /\ adp = NoAdapter
  /\ client = NoClient

\* A pipeline context derived from the request's context, r.Context().
PipelineCtxFromRequest == expired \/ reqCtx = "disconnected"

\* pr.go:82: the pipeline context is context.Background() with the pipeline
\* timeout; it is done when that deadline has passed and at no other time.
PipelineCtxDone == expired

\* net/http cancels the request's context when ServeHTTP returns.
HandlerReturned(ctx) == IF ctx = "live" THEN "returned" ELSE ctx

\* A handler that starts a pipeline for every action.
EarlyResponseNoIgnore(m, bodyOK, action) ==
  IF m # "POST" THEN [status |-> 405, body |-> "method not allowed"]
  ELSE IF ~bodyOK THEN [status |-> 400, body |-> "invalid payload"]
  ELSE NoResponse

\* A handler that decodes the body before it looks at the method.
EarlyResponseDecodeFirst(m, bodyOK, action) ==
  IF ~bodyOK THEN [status |-> 400, body |-> "invalid payload"]
  ELSE IF m # "POST" THEN [status |-> 405, body |-> "method not allowed"]
  ELSE IF action \notin TriggerActions THEN [status |-> 200, body |-> "ignored"]
  ELSE NoResponse

\* pr.go:41-66: what the handler answers before any pipeline is started:
\* 405 to a method other than POST, 400 to a body that does not decode,
\* 200 "ignored" to an action that triggers nothing; no answer yet otherwise.
EarlyResponse(m, bodyOK, action) ==
  IF m # "POST" THEN [status |-> 405, body |-> "method not allowed"]
  ELSE IF ~bodyOK THEN [status |-> 400, body |-> "invalid payload"]
  ELSE IF action \notin TriggerActions THEN [status |-> 200, body |-> "ignored"]
  ELSE NoResponse

\* pr.go:41-99: the handler up to the call of processPR.
Receive ==
  /\ pc = "idle"
  /\ \E m \in Methods, bodyOK \in BOOLEAN, ev \in Events :
       /\ req' = [method |-> m, bodyOK |-> bodyOK, action |-> ev.action]
       /\ IF EarlyResponse(m, bodyOK, ev.action) # NoResponse THEN
            /\ response' = EarlyResponse(m, bodyOK, ev.action)
            /\ pc' = "responded"
            /\ reqCtx' = HandlerReturned(reqCtx)
            /\ UNCHANGED <<meta, observer>>
          ELSE
            /\ meta' = BuildMeta(ev)
            /\ observer' = "waiting"
            /\ pc' = "snapshot"
            /\ UNCHANGED <<response, reqCtx>>
  /\ UNCHANGED <<phase, calls, payload, clones, cloneCmd, tree, collected, desc, review,
                 semgrep, summary, posted, svc, trace, perr, expired, warned>>
  /\ UNCHANGED sideVars

\* ---------------------------------------------------------------- pipeline

StageIndex(s) == CHOOSE i \in 1..Len(Stages) : Stages[i] = s

\* A processPR that asks for the review before the description.
NextStageReviewFirst(s) ==
  CASE s = "snapshot" -> "review"
    [] s = "review" -> "describe"
    [] s = "describe" -> "collect"
    [] s = "post" -> "resolved"
    [] OTHER -> Stages[StageIndex(s) + 1]

\* pr.go:122-171: processPR calls the stages one after the other; after the
\* last it returns nil.
NextStage(s) ==
  IF StageIndex(s) = Len(Stages) THEN "resolved" ELSE Stages[StageIndex(s) + 1]

\* A processPR that posts again when the post failed.
OnStageErrorRetryPost(s) == IF s = "post" THEN "post" ELSE "resolved"

\* A processPR that logs a stage's error and goes on.
OnStageErrorContinue(s) == NextStage(s)

\* pr.go:123-125, 132-134, 138-140, 145-147, 161-163, 166-168: a stage's
\* error is returned at once.
OnStageError(s) == "resolved"

\* The entries of the trace: a stage's start, and its return with whether
\* the callee did its part (good: the clone succeeded, the walk met no error,
\* the service answered 2xx with a decodable body to a request that could be
\* built), whether the pipeline deadline had passed by then, and whether the
\* stage returned a result (ok) or an error.
Started(s) ==
  [ev |-> "start", stage |-> s, good |-> TRUE, deadline |-> FALSE, ok |-> TRUE]
Returned(s, good, ok) ==
  [ev |-> "return", stage |-> s, good |-> good, deadline |-> expired, ok |-> ok]

\* git.go:32: os.RemoveAll(dest), its error dropped: what the directory may
\* hold afterwards, given what it held.  Removing nothing cannot fail.
RemoveAll(t) == IF t = {} THEN {{}} ELSE {{}, t}

\* git.go:15-53: PrepareRepository up to the start of git clone: the
\* destination is removed, then the clone command is started.
SnapshotStart ==
  /\ UNCHANGED <<req, sideVars>>
  /\ pc = "snapshot" /\ phase = "ready"
  /\ phase' = "inflight"
  /\ tree' \in RemoveAll(tree)
  /\ clones' = clones + 1
  /\ cloneCmd' = CloneCommand(meta)
  /\ trace' = Append(trace, Started("snapshot"))
  /\ UNCHANGED <<pc, meta, response, calls, payload, collected, desc,
                 review, semgrep, summary, posted, svc, perr, expired, reqCtx,
                 observer, warned>>

\* git.go:55-67 and pr.go:122-125: the clone returns.  git clone refuses a
\* destination that exists and is not empty; exec.CommandContext kills the
\* command when the pipeline context is done.
SnapshotReturn ==
  /\ UNCHANGED <<req, sideVars>>
  /\ pc = "snapshot" /\ phase = "inflight"
  /\ \E cloned \in BOOLEAN, t \in Trees :
       IF cloned /\ tree = {} /\ ~PipelineCtxDone THEN
         /\ meta' = [meta EXCEPT !.local_path = Dest(meta)]
         /\ tree' = t
         /\ pc' = NextStage("snapshot")
         /\ trace' = Append(trace, Returned("snapshot", TRUE, TRUE))
         /\ perr' = perr
       ELSE
         /\ perr' = "snapshot"
         /\ pc' = OnStageError("snapshot")
         /\ trace' = Append(trace, Returned("snapshot", cloned /\ tree = {}, FALSE))
         /\ UNCHANGED <<meta, tree>>
  /\ phase' = "ready"
  /\ UNCHANGED <<response, calls, payload, clones, cloneCmd, collected, desc, review,
                 semgrep, summary, posted, svc, expired, reqCtx, observer,
                 warned>>

\* The stages that are one HTTP exchange.
CallStages == {"describe", "review", "synthesize", "post"}

\* The services are handed the metadata as it was before the snapshot.
PayloadMetaBeforeSnapshot(s) ==
  CASE s = "describe" ->
         [sent |-> TRUE, mode |-> "describe",
          pr |-> [meta EXCEPT !.local_path = <<>>]]
    [] s = "review" ->
         [sent |-> TRUE, mode |-> "review",
          pr |-> [meta EXCEPT !.local_path = <<>>],
          description_markdown |-> desc]
    [] s = "synthesize" ->
         [sent |-> TRUE, pr |-> [meta EXCEPT !.local_path = <<>>],
          description_markdown |-> desc,
          review_markdown      |-> review,
          semgrep_markdown     |-> semgrep.findings_markdown,
          semgrep_severity     |-> semgrep.severity]
    [] s = "post" ->
         [sent |-> TRUE, action |-> "comment_pr",
          pr |-> [meta EXCEPT !.local_path = <<>>],
          body |-> summary, body_format |-> "markdown"]

\* The review request built without the description.
PayloadReviewNoDescription(s) ==
  CASE s = "describe" ->
         [sent |-> TRUE, mode |-> "describe", pr |-> meta]
    [] s = "review" ->
         [sent |-> TRUE, mode |-> "review", pr |-> meta,
          description_markdown |-> ""]
    [] s = "synthesize" ->
         [sent |-> TRUE, pr |-> meta,
          description_markdown |-> desc,
          review_markdown      |-> review,
          semgrep_markdown     |-> semgrep.findings_markdown,
          semgrep_severity     |-> semgrep.severity]
    [] s = "post" ->
         [sent |-> TRUE, action |-> "comment_pr", pr |-> meta,
          body |-> summary, body_format |-> "markdown"]

\* The poster is handed the review instead of the synthesis.
PayloadPostReview(s) ==
  CASE s = "describe" ->
         [sent |-> TRUE, mode |-> "describe", pr |-> meta]
    [] s = "review" ->
         [sent |-> TRUE, mode |-> "review", pr |-> meta,
          description_markdown |-> desc]
    [] s = "synthesize" ->
         [sent |-> TRUE, pr |-> meta,
          description_markdown |-> desc,
          review_markdown      |-> review,
          semgrep_markdown     |-> semgrep.findings_markdown,
          semgrep_severity     |-> semgrep.severity]
    [] s = "post" ->
         [sent |-> TRUE, action |-> "comment_pr", pr |-> meta,
          body |-> review, body_format |-> "markdown"]

\* The request body each stage client builds: pr-agent.go:22-25 and 70-74,
\* summarizer.go:32-44 with the arguments of pr.go:150-160, the poster's
\* lines 23-28 with the arguments of pr.go:166.
Payload(s) ==
  CASE s = "describe" ->
         [sent |-> TRUE, mode |-> "describe", pr |-> meta]
    [] s = "review" ->
         [sent |-> TRUE, mode |-> "review", pr |-> meta,
          description_markdown |-> desc]
    [] s = "synthesize" ->
         [sent |-> TRUE, pr |-> meta,
          description_markdown |-> desc,
          review_markdown      |-> review,
          semgrep_markdown     |-> semgrep.findings_markdown,
          semgrep_severity     |-> semgrep.severity]
    [] s = "post" ->
         [sent |-> TRUE, action |-> "comment_pr", pr |-> meta,
          body |-> summary, body_format |-> "markdown"]

\* What the downstream service may answer with.
Outputs(s) ==
  CASE s = "describe" -> DescriptionOutputs
    [] s = "review" -> ReviewOutputs
    [] s = "synthesize" -> SummaryOutputs
    [] s = "post" -> {"posted"}

\* A poster whose request carries no context: its call need not return.
ReplyKindsOfPostHangs(s) == IF s = "post" THEN {} ELSE ReplyKinds

\* The poster decodes no answer.
ReplyKindsOf(s) == IF s = "post" THEN ReplyKinds \ {"decode"} ELSE ReplyKinds

\* Requests built without the pipeline context.
OutcomeIgnoreDeadline(k) == k

\* How an exchange ends for the client: a payload or request that cannot be
\* built fails before anything is sent; client.Do fails once the pipeline
\* context is done, whatever the service would have answered.
Outcome(k) ==
  IF k \in BuildKinds THEN k
  ELSE IF PipelineCtxDone THEN "http"
  ELSE k

\* A stage client is called and builds its request.
StartCall(s) ==
  /\ UNCHANGED <<req, sideVars>>
  /\ pc = s /\ phase = "ready"
  /\ phase' = "inflight"
  /\ calls' = [calls EXCEPT ![s] = @ + 1]
  /\ payload' = [payload EXCEPT ![s] = Payload(s)]
  /\ trace' = Append(trace, Started(s))
  /\ UNCHANGED <<pc, meta, response, clones, cloneCmd, tree, collected, desc, review,
                 semgrep, summary, posted, svc, perr, expired, reqCtx,
                 observer, warned>>

\* The stage client returns to processPR, which goes on to the next stage
\* or returns the error (pr.go:131-168).
ReturnCall(s) ==
  /\ UNCHANGED <<req, sideVars>>
  /\ pc = s /\ phase = "inflight"
  /\ \E k \in ReplyKindsOf(s), out \in Outputs(s) :
       IF Outcome(k) = "ok" THEN
         /\ desc' = IF s = "describe" THEN out ELSE desc
         /\ review' = IF s = "review" THEN out ELSE review
         /\ summary' = IF s = "synthesize" THEN out ELSE summary
         /\ posted' = IF s = "post" THEN TRUE ELSE posted
         /\ pc' = NextStage(s)
         /\ trace' = Append(trace, Returned(s, TRUE, TRUE))
         /\ perr' = perr
       ELSE
         /\ perr' = s
         /\ pc' = OnStageError(s)
         /\ trace' = Append(trace, Returned(s, k = "ok", FALSE))
         /\ UNCHANGED <<desc, review, summary, posted>>
  /\ phase' = "ready"
  /\ UNCHANGED <<meta, response, calls, payload, clones, cloneCmd, tree, collected,
                 semgrep, svc, expired, reqCtx, observer, warned>>

\* pr.go:144 and the scan client's lines 47-57: CallSemgrep is called,
\* refuses a metadata without local path, and starts the collector.
CollectStart ==
  /\ UNCHANGED <<req, sideVars>>
  /\ pc = "collect" /\ phase = "ready"
  /\ IF Len(meta.local_path) = 0 THEN
       /\ perr' = "scan"
       /\ pc' = OnStageError("scan")
       /\ phase' = "ready"
       /\ trace' = Append(trace, Returned("scan", FALSE, FALSE))
     ELSE
       /\ phase' = "inflight"
       /\ trace' = Append(trace, Started("collect"))
       /\ UNCHANGED <<pc, perr>>
  /\ UNCHANGED <<meta, response, calls, payload, clones, cloneCmd, tree, collected, desc,
                 review, semgrep, summary, posted, svc, expired, reqCtx,
                 observer, warned>>

\* The scan client's line 57: the collector returns.
CollectReturn ==
  /\ UNCHANGED <<req, sideVars>>
  /\ pc = "collect" /\ phase = "inflight"
  /\ \E walkErr \in BOOLEAN :
       /\ collected' = collectCodeFiles(tree, walkErr)
       /\ trace' = Append(trace, Returned("collect", ~walkErr, TRUE))
  /\ pc' = NextStage("collect")
  /\ phase' = "ready"
  /\ UNCHANGED <<meta, response, calls, payload, clones, cloneCmd, tree, desc, review,
                 semgrep, summary, posted, svc, perr, expired, reqCtx,
                 observer, warned>>

\* The scan client's lines 73-78: the request to the scan service.
ScanRequest ==
  [ sent      |-> TRUE,
    repo_path |-> meta.local_path,
    repo_url  |-> <<"https://github.com", meta.repo_owner, meta.repo_name>>,
    branch    |-> meta.source_branch,
    files     |-> collected.files ]

\* The scan client's lines 58-97: without files CallSemgrep returns the
\* heuristic output at once (pr.go:144-148 then goes on); with files it
\* builds the request to the scan service.
ScanStart ==
  /\ UNCHANGED <<req, sideVars>>
  /\ pc = "scan" /\ phase = "ready"
  /\ IF collected.err \/ collected.files = {} THEN
       /\ semgrep' = generateHeuristicOutput
       /\ pc' = NextStage("scan")
       /\ trace' = trace \o <<Started("scan"), Returned("scan", FALSE, TRUE)>>
       /\ UNCHANGED <<phase, calls, payload>>
     ELSE
       /\ phase' = "inflight"
       /\ calls' = [calls EXCEPT !["scan"] = @ + 1]
       /\ payload' = [payload EXCEPT !["scan"] = ScanRequest]
       /\ trace' = Append(trace, Started("scan"))
       /\ UNCHANGED <<pc, semgrep>>
  /\ UNCHANGED <<meta, response, clones, cloneCmd, tree, collected, desc, review,
                 summary, posted, svc, perr, expired, reqCtx, observer, warned>>

\* The scan service receives the request (semgrep/main.go:149-190).
SvcAccept ==
  /\ UNCHANGED <<req, sideVars>>
  /\ pc = "scan" /\ phase = "inflight"
  /\ svc.pc = "idle"
  /\ ~PipelineCtxDone
  /\ svc' = AcceptScan(payload["scan"])
  /\ UNCHANGED <<pc, phase, meta, response, calls, payload, clones, cloneCmd, tree,
                 collected, desc, review, semgrep, summary, posted, trace,
                 perr, expired, reqCtx, observer, warned>>

\* The scan service tries the next configuration (semgrep/main.go:221-296);
\* the attempt meets one of the given outcomes.
SvcRpcOver(outcomes) ==
  /\ UNCHANGED <<req, sideVars>>
  /\ pc = "scan" /\ phase = "inflight"
  /\ svc.pc = "loop"
  /\ \E o \in outcomes : svc' = LoopPass(svc, o)
  /\ UNCHANGED <<pc, phase, meta, response, calls, payload, clones, cloneCmd, tree,
                 collected, desc, review, semgrep, summary, posted, trace,
                 perr, expired, reqCtx, observer, warned>>

SvcRpc == SvcRpcOver(RpcOutcomes)

\* How the exchange with the scan service can end, given what the service
\* has done: a request that cannot be built never reaches it; a decodable
\* answer needs the service to have answered.
ScanReplyKinds ==
  (IF svc.pc = "idle" THEN BuildKinds ELSE {})
    \cup {"http", "status", "decode"}
    \cup (IF svc.pc = "done" THEN {"ok"} ELSE {})

\* A CallSemgrep that returns the transport's error.
ScanErrOnTransport(kind) == IF kind = "http" THEN "scan" ELSE ""

\* The scan client's lines 60, 65, 83, 90, 100, 111, 118, 126 and 143: the
\* error CallSemgrep returns beside its output, however the exchange ended
\* ("" is nil).
ScanErr(kind) == ""

\* The scan client's lines 97-143 and pr.go:144-148: CallSemgrep returns.
ScanReturn ==
  /\ UNCHANGED <<req, sideVars>>
  /\ pc = "scan" /\ phase = "inflight"
  /\ \E k \in ScanReplyKinds :
       IF ScanErr(Outcome(k)) = "" THEN
         /\ semgrep' = ScanResult(Outcome(k), svc.resp)
         /\ pc' = NextStage("scan")
         /\ trace' = Append(trace, Returned("scan", k = "ok", TRUE))
         /\ perr' = perr
       ELSE
         /\ perr' = "scan"
         /\ pc' = OnStageError("scan")
         /\ trace' = Append(trace, Returned("scan", k = "ok", FALSE))
         /\ semgrep' = semgrep
  /\ phase' = "ready"
  /\ UNCHANGED <<meta, response, calls, payload, clones, cloneCmd, tree, collected, desc,
                 review, summary, posted, svc, expired, reqCtx, observer,
                 warned>>

\* A handler that answers with the error's text.
PipelineResponseLeaksError(err) ==
  IF err # "" THEN [status |-> 500, body |-> err]
  ELSE [status |-> 200, body |-> "processed"]

\* A handler that answers 200 whatever processPR returned.
PipelineResponseAlwaysOK(err) == [status |-> 200, body |-> "processed"]

\* pr.go:101-113: the response to a webhook whose pipeline returned err
\* ("" is nil).
PipelineResponse(err) ==
  IF err # "" THEN [status |-> 500, body |-> "processing error"]
  ELSE [status |-> 200, body |-> "processed"]

\* pr.go:101-113: processPR has returned and the handler writes its response.
Respond ==
  /\ UNCHANGED <<req, sideVars>>
  /\ pc = "resolved"
  /\ response' = PipelineResponse(perr)
  /\ pc' = "responded"
  /\ reqCtx' = HandlerReturned(reqCtx)
  /\ UNCHANGED <<phase, meta, calls, payload, clones, cloneCmd, tree, collected, desc,
                 review, semgrep, summary, posted, svc, trace, perr, expired,
                 observer, warned>>

\* ------------------------------------------------------------- environment

Running == pc \in StageSet \/ pc = "resolved"

\* The webhook client closes its connection while the handler is running.
ClientDisconnect ==
  /\ Running
  /\ reqCtx = "live"
  /\ reqCtx' = "disconnected"
  /\ UNCHANGED <<pipeVars, expired, observer, warned, sideVars>>

\* The pipeline deadline of pr.go:82 passes.
Expire ==
  /\ Running
  /\ ~expired
  /\ expired' = TRUE
  /\ UNCHANGED <<pipeVars, reqCtx, observer, warned, sideVars>>

\* pr.go:92-99: the observer wakes when the request's context is done and
\* logs when the context's Err is non-nil, which it is once it is done.
Observe ==
  /\ observer = "waiting"
  /\ reqCtx # "live"
  /\ observer' = "exited"
  /\ warned' = TRUE
  /\ UNCHANGED <<pipeVars, expired, reqCtx, sideVars>>

Next ==
  \/ Receive
  \/ SnapshotStart
  \/ SnapshotReturn
  \/ \E s \in CallStages : StartCall(s)
  \/ \E s \in CallStages : ReturnCall(s)
  \/ CollectStart
  \/ CollectReturn
  \/ ScanStart
  \/ SvcAccept
  \/ SvcRpc
  \/ ScanReturn
  \/ Respond
  \/ ClientDisconnect
  \/ Expire
  \/ Observe

Spec == Init /\ [][Next]_vars

\* The steps of the handler's own goroutine once the pipeline has started:
\* processPR's stages (pr.go:116-172) and the response (pr.go:101-113).
PipelineStep ==
  \/ SnapshotStart
  \/ SnapshotReturn
  \/ \E s \in CallStages : StartCall(s)
  \/ \E s \in CallStages : ReturnCall(s)
  \/ CollectStart
  \/ CollectReturn
  \/ ScanStart
  \/ ScanReturn
  \/ Respond

\* The goroutine keeps running, and every external call returns or is cut
\* off: git runs under exec.CommandContext (git.go:46-48) and every request
\* is built with http.NewRequestWithContext on the pipeline context
\* (pr.go:82), so a return is always possible and is eventually taken.
FairSpec == Spec /\ WF_vars(PipelineStep)

\* ----------------------------------------------------- the snapshot alone

\* Webhook events of several pull requests.
SnapshotEvents ==
  [ action    : {"opened"},
    number    : {7, 42},
    repoOwner : {"acme", "globex"},
    repoName  : {"widget", "gadget"},
    headOwner : {"fork-u"},
    headName  : {"widget"},
    headRef   : {"feat-x", "fix-y"} ]

\* A file an earlier run left in the snapshot directory.
FStale == [dirs |-> <<>>, base |-> "old.go", ext |-> ".go", readable |-> TRUE, big |-> FALSE]

\* processPR is about to call PrepareRepository (pr.go:122) for any of the
\* pull requests; either no run has cloned into the destination yet and it
\* holds nothing, or one has and its content is still there.
InitSnapshot ==
  /\ req = [method |-> "POST", bodyOK |-> TRUE, action |-> "opened"]
  /\ pc = "snapshot"
  /\ phase = "ready"
  /\ meta \in {BuildMeta(ev) : ev \in SnapshotEvents}
  /\ response = NoResponse
  /\ calls = [s \in Services |-> 0]
  /\ payload = [s \in Services |-> NoPayload]
  /\ \/ clones = 0 /\ tree = {}
     \/ clones = 1 /\ tree \in {{FStale}, {FStale, FGo}}
  /\ collected = NoCollected
  /\ desc = ""
  /\ review = ""
  /\ semgrep = NoScan
  /\ summary = ""
  /\ posted = FALSE
  /\ svc = SvcIdle
  /\ trace = <<>>
  /\ perr = ""
  /\ expired = FALSE
  /\ reqCtx = "live"
  /\ observer = "waiting"
  /\ warned = FALSE
  /\ cloneCmd = IF clones = 0 THEN NoClone ELSE CloneCommand(meta)
  /\ runs = NoRuns
  /\ disk = NoDisk
  /\ adp = NoAdapter
  /\ client = NoClient

NextSnapshot ==
  \/ SnapshotStart
  \/ SnapshotReturn

SpecSnapshot == InitSnapshot /\ [][NextSnapshot]_vars

\* ---------------------------------------------------- the collector alone

ReturnedOk(s) ==
  [ev |-> "return", stage |-> s, good |-> TRUE, deadline |-> FALSE, ok |-> TRUE]

\* The metadata of the pipeline once the snapshot is taken.
SnapshotMeta ==
  [ repo_owner |-> "acme", repo_name |-> "widget", pr_number |-> 42,
    head_repo_owner |-> "", head_repo_name |-> "",
    source_branch |-> "feat-x",
    local_path |-> <<"tmp", "acme", "widget", 42>> ]

\* processPR is about to call CallSemgrep (pr.go:144): snapshot, describe
\* and review have returned; the snapshot directory holds any tree.
InitCollect ==
  /\ req = [method |-> "POST", bodyOK |-> TRUE, action |-> "opened"]
  /\ pc = "collect"
  /\ phase = "ready"
  /\ meta = SnapshotMeta
  /\ response = NoResponse
  /\ calls = [s \in Services |-> IF s \in {"describe", "review"} THEN 1 ELSE 0]
  /\ payload =
       [s \in Services |->
          CASE s = "describe" ->
                 [sent |-> TRUE, mode |-> "describe", pr |-> SnapshotMeta]
            [] s = "review" ->
                 [sent |-> TRUE, mode |-> "review", pr |-> SnapshotMeta,
                  description_markdown |-> "desc_a"]
            [] OTHER -> NoPayload]
  /\ clones = 1
  /\ tree \in SUBSET WalkFiles
  /\ collected = NoCollected
  /\ desc = "desc_a"
  /\ review = "review_a"
  /\ semgrep = NoScan
  /\ summary = ""
  /\ posted = FALSE
  /\ svc = SvcIdle
  /\ trace = << Started("snapshot"), ReturnedOk("snapshot"),
                Started("describe"), ReturnedOk("describe"),
                Started("review"), ReturnedOk("review") >>
  /\ perr = ""
  /\ expired = FALSE
  /\ reqCtx = "live"
  /\ observer = "waiting"
  /\ warned = FALSE
  /\ cloneCmd = CloneCommand(SnapshotMeta)
  /\ runs = NoRuns
  /\ disk = NoDisk
  /\ adp = NoAdapter
  /\ client = NoClient

NextCollect ==
  \/ CollectStart
  \/ CollectReturn
  \/ ScanStart

SpecCollect == InitCollect /\ [][NextCollect]_vars

\* ------------------------------------------------ the scan service alone

\* The scan service is a server of its own (semgrep/main.go:95-117): POST
\* /scan takes any body that decodes to a ScanRequest (23-28), from any
\* client, and the remote scanner answers with any labels.
SvcRequests ==
  [ sent      : {TRUE},
    repo_path : {<<>>, <<"tmp", "acme", "widget", 42>>},
    repo_url  : {<<"https://github.com", "acme", "widget">>},
    branch    : {"feat-x"},
    files     : {{}, {<<<<>>, "main.go">>}, {<<<<>>, "main.go">>, <<<<"src">>, "App.PY">>}} ]

\* A request to /scan is in flight (pc and phase say so); no webhook is.
InitSvc ==
  /\ req = NoRequest
  /\ pc = "scan"
  /\ phase = "inflight"
  /\ meta = NoMeta
  /\ response = NoResponse
  /\ calls = [s \in Services |-> 0]
  /\ payload \in {[[s \in Services |-> NoPayload] EXCEPT !["scan"] = r] : r \in SvcRequests}
  /\ clones = 0
  /\ tree = {}
  /\ collected = NoCollected
  /\ desc = ""
  /\ review = ""
  /\ semgrep = NoScan
  /\ summary = ""
  /\ posted = FALSE
  /\ svc = SvcIdle
  /\ trace = <<>>
  /\ perr = ""
  /\ expired = FALSE
  /\ reqCtx = "live"
  /\ observer = "none"
  /\ warned = FALSE
  /\ cloneCmd = NoClone
  /\ runs = NoRuns
  /\ disk = NoDisk
  /\ adp = NoAdapter
  /\ client = NoClient

SvcRpcRaw == SvcRpcOver(RawOutcomes)

NextSvc ==
  \/ SvcAccept
  \/ SvcRpcRaw

SpecSvc == InitSvc /\ [][NextSvc]_vars

\* -------------------------------------------- the markdown's sections

\* Findings that can be told apart within the minor and the info bucket.
SectionFindings ==
  { [check_id |-> "rule-1", severity |-> "MINOR"],
    [check_id |-> "rule-2", severity |-> "note"],
    [check_id |-> "rule-1", severity |-> "INFO"],
    [check_id |-> "rule-2", severity |-> ""] }

\* A finding of a bucket whose section is never truncated.
CriticalFinding == [check_id |-> "rule-1", severity |-> "ERROR"]

\* Lists long enough to exceed both limits: minor and info findings in any
\* order, the same after a critical finding, and critical findings only.
SectionLists ==
  LET low == ListsOver(SectionFindings, MaxSectionFindings)
  IN  low
      \cup { <<CriticalFinding>> \o l : l \in { m \in low : Len(m) < MaxSectionFindings } }
      \cup ListsOver({CriticalFinding}, MaxSectionFindings)

\* Attempts that succeed with such lists.
SectionOutcomes == [kind : {"ok"}, results : SectionLists]

\* A request with a path and one file is in flight to /scan.
InitFormat ==
  /\ InitSvc
  /\ Len(payload["scan"].repo_path) > 0
  /\ Cardinality(payload["scan"].files) = 1

SvcRpcLong == SvcRpcOver(SectionOutcomes)

NextFormat ==
  \/ SvcAccept
  \/ SvcRpcLong

SpecFormat == InitFormat /\ [][NextFormat]_vars

\* ------------------------------------------- two pipelines at the snapshot

\* The webhook server runs every request's handler, and so its pipeline, in
\* a goroutine of its own: two pipelines at PrepareRepository at once.
Pipes == {"A", "B"}

Other(p) == IF p = "A" THEN "B" ELSE "A"

\* The metadata the handler builds for the pull request k of owner/name.
RaceMeta(owner, name, k) ==
  BuildMeta([action |-> "opened", number |-> k, repoOwner |-> owner,
             repoName |-> name, headOwner |-> "fork-u", headName |-> name,
             headRef |-> "feat-x"])

RaceMetas ==
  { RaceMeta("acme", "widget", 42), RaceMeta("acme", "widget", 43),
    RaceMeta("acme-x", "y", 42), RaceMeta("acme", "x-y", 42) }

RacePaths == { Dest(m) : m \in RaceMetas }

\* How many pipelines have entered PrepareRepository.
RaceStarted == Cardinality({ p \in Pipes : runs[p].step # "idle" })

\* Two pipelines about to take their snapshots; the directories hold what
\* earlier pipelines ("old") left there, or nothing.
InitRace ==
  /\ InitPipeline
  /\ runs \in [Pipes -> [meta : RaceMetas, step : {"idle"}, order : {0}, cause : {""},
                        kept : {FALSE}]]
  /\ disk \in [RacePaths -> {{}, {"old"}}]
  /\ adp = NoAdapter
  /\ client = NoClient

\* git.go:25-32: the destination is computed and os.RemoveAll(dest) is
\* called, its error dropped; whatever is there, another pipeline's clone in
\* progress included, goes, or is kept when the removal fails.
RaceRemove(p) ==
  /\ runs[p].step = "idle"
  /\ \E left \in RemoveAll(disk[Dest(runs[p].meta)]) :
       /\ disk' = [disk EXCEPT ![Dest(runs[p].meta)] = left]
       /\ runs' = [runs EXCEPT ![p].step = "removed",
                                ![p].order = RaceStarted + 1,
                                ![p].kept = (left # {})]
  /\ UNCHANGED <<pipeVars, expired, reqCtx, observer, warned, adp, client>>

\* git.go:46-55: git clone starts.  It refuses a destination that exists
\* and is not empty (cause "exists"); otherwise it creates the directory and
\* writes into it.
RaceCloneStart(p) ==
  /\ runs[p].step = "removed"
  /\ IF disk[Dest(runs[p].meta)] # {}
       THEN /\ runs' = [runs EXCEPT ![p].step = "failed", ![p].cause = "exists"]
            /\ UNCHANGED disk
       ELSE /\ runs' = [runs EXCEPT ![p].step = "cloning"]
            /\ disk' = [disk EXCEPT ![Dest(runs[p].meta)] = {p}]
  /\ UNCHANGED <<pipeVars, expired, reqCtx, observer, warned, adp, client>>

\* git.go:55-66: git clone ends.  With its directory intact it succeeds or
\* fails (network, branch), and a failed clone removes what it created.  With
\* its files removed under it, it fails, or its remaining writes land in the
\* path again and it reports success.  The cause of a failure is "net" with
\* the directory intact and "removed" without.
RaceCloneEnd(p) ==
  /\ runs[p].step = "cloning"
  /\ \E ok \in BOOLEAN :
       /\ runs' = [runs EXCEPT
                     ![p].step = IF ok THEN "done" ELSE "failed",
                     ![p].cause = IF ok THEN ""
                                  ELSE IF p \in disk[Dest(runs[p].meta)]
                                         THEN "net" ELSE "removed"]
       /\ disk' = [disk EXCEPT ![Dest(runs[p].meta)] =
                     IF ok THEN @ \cup {p} ELSE @ \ {p}]
  /\ UNCHANGED <<pipeVars, expired, reqCtx, observer, warned, adp, client>>

NextRace ==
  \E p \in Pipes : RaceRemove(p) \/ RaceCloneStart(p) \/ RaceCloneEnd(p)

SpecRace == InitRace /\ [][NextRace]_vars

\* ------------------------------------------- the source-control adapter

\* REPO_OWNER and REPO_NAME of the adapter's environment; each may be unset.
AdpConfigs == [owner : {"", "dflt-o"}, repo : {"", "dflt-r"}]

\* The bodies POSTed to /comment: the orchestrator's shape with "pr" an
\* object, the simple shape with "pr" a number, the empty object {} and a
\* body that is no JSON.  A missing field and its zero value read the same.
AdpBodies ==
  [shape : {"full"}, owner : {"", "acme"}, repo : {"", "widget"},
   pr_number : {0, 42}, body : {"final_a"}]
  \cup [shape : {"simple"}, pr : {0, 42}, body : {"final_a"}]
  \cup {[shape |-> "empty"], [shape |-> "garbage"]}

\* json.Unmarshal into CommentReqOrchestrator: a number for "pr" is a type
\* error, an absent field stays at its zero value.
ParseOrchestrator(raw) ==
  CASE raw.shape = "full" ->
         [ok |-> TRUE, owner |-> raw.owner, repo |-> raw.repo,
          pr |-> raw.pr_number, body |-> raw.body]
    [] raw.shape = "empty" ->
         [ok |-> TRUE, owner |-> "", repo |-> "", pr |-> 0, body |-> ""]
    [] OTHER ->
         [ok |-> FALSE, owner |-> "", repo |-> "", pr |-> 0, body |-> ""]

\* json.Unmarshal into CommentReqSimple: an object for "pr" is a type error.
ParseSimple(raw) ==
  CASE raw.shape = "simple" -> [ok |-> TRUE, pr |-> raw.pr, body |-> raw.body]
    [] raw.shape = "empty" -> [ok |-> TRUE, pr |-> 0, body |-> ""]
    [] OTHER -> [ok |-> FALSE, pr |-> 0, body |-> ""]

\* Lines 99-100 and 125-126: the shape the body is taken for.
ShapeOf(raw) ==
  IF ParseOrchestrator(raw).ok /\ ParseOrchestrator(raw).pr # 0 THEN "orchestrator"
  ELSE IF ParseSimple(raw).ok /\ ParseSimple(raw).pr # 0 THEN "simple"
  ELSE "none"

NoTarget == [ok |-> FALSE, owner |-> "", repo |-> "", pr |-> 0, body |-> ""]

\* Every request is posted to the configured repository.
ResolveTargetDefaultsOnly(cfg, raw) ==
  IF ShapeOf(raw) = "none" \/ cfg.owner = "" \/ cfg.repo = "" THEN NoTarget
  ELSE [ok |-> TRUE, owner |-> cfg.owner, repo |-> cfg.repo,
        pr |-> IF ShapeOf(raw) = "simple" THEN ParseSimple(raw).pr
               ELSE ParseOrchestrator(raw).pr,
        body |-> raw.body]

\* Lines 102-119 and 128-134: the repository, pull request and body the
\* comment goes to; not ok when owner or repository is missing.
ResolveTarget(cfg, raw) ==
  IF ShapeOf(raw) = "orchestrator" THEN
    LET o == ParseOrchestrator(raw)
        owner == IF o.owner = "" THEN cfg.owner ELSE o.owner
        repo == IF o.repo = "" THEN cfg.repo ELSE o.repo
    IN  IF owner = "" \/ repo = "" THEN NoTarget
        ELSE [ok |-> TRUE, owner |-> owner, repo |-> repo, pr |-> o.pr,
              body |-> o.body]
  ELSE
    LET s == ParseSimple(raw)
    IN  IF cfg.owner = "" \/ cfg.repo = "" THEN NoTarget
        ELSE [ok |-> TRUE, owner |-> cfg.owner, repo |-> cfg.repo,
              pr |-> s.pr, body |-> s.body]

\* The failed call answered as an internal error.
PostStatusInternalError(ok) == IF ok THEN 200 ELSE 500

\* postComment, lines 158-174: 502 when CreateComment fails, else the JSON
\* answer with its implicit 200.
PostStatus(ok) == IF ok THEN 200 ELSE 502

NoBody == [shape |-> "none"]

\* The adapter between requests, having served n of them.
AdpIdle(cfg, n, log) ==
  [pc |-> "idle", cfg |-> cfg, raw |-> NoBody, target |-> NoTarget,
   status |-> 0, apiCalls |-> 0, api |-> "none", path |-> <<>>,
   served |-> n, log |-> log]

InitAdapter ==
  /\ InitPipeline
  /\ runs = NoRuns
  /\ disk = NoDisk
  /\ adp \in { AdpIdle(cfg, 0, <<>>) : cfg \in AdpConfigs }
  /\ client = NoClient

\* The request as the log keeps it once it is answered.
AdpEntry(a) ==
  [raw |-> a.raw, target |-> a.target, status |-> a.status, api |-> a.api,
   path |-> a.path]

\* The handler returns: the answer is written and nothing of the request
\* is kept but the log's line.
AdpEnd(a, pc2, status) ==
  [a EXCEPT !.pc = pc2, !.status = status, !.path = Append(a.path, pc2),
            !.log = Append(a.log, AdpEntry([a EXCEPT !.status = status,
                                              !.path = Append(a.path, pc2)]))]

\* Line 93-95: a POST /comment arrives and its body is read.
AdpReceive ==
  /\ adp.pc \in {"idle", "done", "failed"}
  /\ adp.served < MaxRequests
  /\ \E raw \in AdpBodies :
       adp' = [AdpIdle(adp.cfg, adp.served + 1, adp.log) EXCEPT
                 !.pc = "parsing", !.raw = raw, !.path = <<"parsing">>]
  /\ UNCHANGED <<pipeVars, expired, reqCtx, observer, warned, runs, disk, client>>

\* Lines 98-100, 124-126, 137-138: the body is tried as the orchestrator's
\* shape, then as the simple one; as neither, the answer is 400.
AdpParse ==
  /\ adp.pc = "parsing"
  /\ adp' = IF ShapeOf(adp.raw) = "none"
              THEN AdpEnd(adp, "failed", 400)
              ELSE [adp EXCEPT !.pc = "resolving_target",
                               !.path = Append(@, "resolving_target")]
  /\ UNCHANGED <<pipeVars, expired, reqCtx, observer, warned, runs, disk, client>>

\* Lines 102-121 and 128-134 with postComment's 152-158: owner and
\* repository are resolved; without them the answer is 400, with them
\* CreateComment is called.
AdpResolve ==
  /\ adp.pc = "resolving_target"
  /\ adp' = IF ~ResolveTarget(adp.cfg, adp.raw).ok
              THEN AdpEnd(adp, "failed", 400)
              ELSE [adp EXCEPT !.pc = "posting",
                               !.path = Append(@, "posting"),
                               !.target = ResolveTarget(adp.cfg, adp.raw),
                               !.apiCalls = @ + 1]
  /\ UNCHANGED <<pipeVars, expired, reqCtx, observer, warned, runs, disk, client>>

\* postComment, lines 158-174: CreateComment returns.
AdpPosted ==
  /\ adp.pc = "posting"
  /\ \E ok \in BOOLEAN :
       adp' = AdpEnd([adp EXCEPT !.api = IF ok THEN "ok" ELSE "error"],
                     IF ok THEN "done" ELSE "failed", PostStatus(ok))
  /\ UNCHANGED <<pipeVars, expired, reqCtx, observer, warned, runs, disk, client>>

NextAdapter == AdpReceive \/ AdpParse \/ AdpResolve \/ AdpPosted

SpecAdapter == InitAdapter /\ [][NextAdapter]_vars

\* ------------------------------------------- the orchestrator's start

\* HTTP_TIMEOUT_MINUTES in the orchestrator's environment: unset, a text
\* that is no number (the empty one among them), or a decimal integer.
EnvValues ==
  {[kind |-> "unset"]}
  \cup [kind : {"text"}, s : {"", "abc", "15m"}]
  \cup [kind : {"int"}, n : (0 - MaxMinutes)..MaxMinutes]

\* The default of loadConfigFromEnv, in minutes.
DefaultHTTPTimeoutMinutes == 15

\* Lines 77-83 of the orchestrator's main file: the default stays unless
\* the variable is set, strconv.Atoi reads it and the number is positive.
loadConfigFromEnv(v) ==
  IF v.kind = "int" /\ v.n > 0 THEN v.n ELSE DefaultHTTPTimeoutMinutes

\* The orchestrator is started with some environment.
InitConfig ==
  /\ InitPipeline
  /\ runs = NoRuns
  /\ disk = NoDisk
  /\ adp = NoAdapter
  /\ client \in { [pc |-> "env", env |-> v, minutes |-> 0, timeout |-> 0] : v \in EnvValues }

\* Line 23: main loads the configuration.
LoadConfig ==
  /\ client.pc = "env"
  /\ client' = [client EXCEPT !.pc = "config", !.minutes = loadConfigFromEnv(client.env)]
  /\ UNCHANGED <<pipeVars, expired, reqCtx, observer, warned, runs, disk, adp>>

\* Lines 26-40: main builds the shared HTTP client, its Timeout the
\* configured minutes (kept in minutes here).
NewClient ==
  /\ client.pc = "config"
  /\ client' = [client EXCEPT !.pc = "serving", !.timeout = client.minutes]
  /\ UNCHANGED <<pipeVars, expired, reqCtx, observer, warned, runs, disk, adp>>

SpecConfig == InitConfig /\ [][LoadConfig \/ NewClient]_vars

\* ------------------------------------------------- the scan client alone

\* The bodies json.Decode accepts into a SemgrepServiceResponse (the scan
\* client's lines 29-36 and 115-119): any status, markdown, severity, count
\* and error, whether or not this repository's scan service would send them.
DecodedResponses ==
  [ status            : {"success", "error"},
    findings_markdown : {StaticMd(""), generateFallbackMarkdown,
                         StaticMd("No security issues found by Semgrep.")},
    severity          : {ZeroSeverity,
                         [ZeroSeverity EXCEPT !.critical = 1],
                         [ZeroSeverity EXCEPT !.minor = 2, !.info = 1]},
    findings_count    : {0, 1},
    error             : {"", "Semgrep scan failed for all configurations"} ]

\* CallSemgrep has posted its request (the scan client's line 97) and a
\* service has written its answer, status 200 and one of the bodies.
InitScanClient ==
  /\ req = [method |-> "POST", bodyOK |-> TRUE, action |-> "opened"]
  /\ pc = "scan"
  /\ phase = "inflight"
  /\ meta = SnapshotMeta
  /\ response = NoResponse
  /\ calls = [s \in Services |-> IF s \in {"describe", "review", "scan"} THEN 1 ELSE 0]
  /\ payload =
       [s \in Services |->
          CASE s = "describe" ->
                 [sent |-> TRUE, mode |-> "describe", pr |-> SnapshotMeta]
            [] s = "review" ->
                 [sent |-> TRUE, mode |-> "review", pr |-> SnapshotMeta,
                  description_markdown |-> "desc_a"]
            [] s = "scan" ->
                 [sent |-> TRUE, repo_path |-> SnapshotMeta.local_path,
                  repo_url |-> <<"https://github.com", "acme", "widget">>,
                  branch |-> "feat-x", files |-> {<<<<>>, "main.go">>}]
            [] OTHER -> NoPayload]
  /\ clones = 1
  /\ tree = {}
  /\ collected = [err |-> FALSE, files |-> {<<<<>>, "main.go">>}]
  /\ desc = "desc_a"
  /\ review = "review_a"
  /\ semgrep = NoScan
  /\ summary = ""
  /\ posted = FALSE
  /\ svc \in { [SvcIdle EXCEPT !.pc = "done", !.resp = r, !.http = 200] :
               r \in DecodedResponses }
  /\ trace = << Started("snapshot"), ReturnedOk("snapshot"),
                Started("describe"), ReturnedOk("describe"),
                Started("review"), ReturnedOk("review"),
                Started("collect"), ReturnedOk("collect"),
                Started("scan") >>
  /\ perr = ""
  /\ expired = FALSE
  /\ reqCtx = "live"
  /\ observer = "waiting"
  /\ warned = FALSE
  /\ cloneCmd = CloneCommand(SnapshotMeta)
  /\ runs = NoRuns
  /\ disk = NoDisk
  /\ adp = NoAdapter
  /\ client = NoClient

NextScanClient ==
  \/ ScanReturn
  \/ Expire
  \/ \E s \in CallStages : StartCall(s)

SpecScanClient == InitScanClient /\ [][NextScanClient]_vars

\* ------------------------------------------------------------------ claims

\* The webhook passed the handler's checks and started a pipeline.
Triggered == req.method = "POST" /\ req.bodyOK /\ req.action \in TriggerActions

\* processPR has returned.
Resolved == pc \in {"resolved", "responded"}

\* The stages whose error processPR returns.
FatalStages == {"snapshot", "describe", "review", "synthesize", "post"}

IsReturn(e, s) == e.ev = "return" /\ e.stage = s

HasStart(s) == \E i \in 1..Len(trace) : trace[i].ev = "start" /\ trace[i].stage = s

HasReturn(s, ok) == \E i \in 1..Len(trace) : IsReturn(trace[i], s) /\ trace[i].ok = ok

NothingStarted ==
  /\ trace = <<>>
  /\ clones = 0
  /\ \A s \in Services : calls[s] = 0
  /\ observer = "none"

\* C1: a triggering webhook's pipeline asks the poster for at most one
\* comment over its whole run: exactly one once snapshot, describe, review,
\* scan and synthesize have all returned a result, none when a fatal stage
\* before the post failed.
C1_AtMostOnePost ==
  /\ calls["post"] <= 1
  /\ ( /\ Resolved
       /\ \A s \in {"snapshot", "describe", "review", "scan", "synthesize"} :
            HasReturn(s, TRUE) )
       => calls["post"] = 1
  /\ (\E s \in FatalStages \ {"post"} : HasReturn(s, FALSE)) => calls["post"] = 0

C1_Witness ==
  /\ Triggered
  /\ pc = "responded"
  /\ calls["post"] = 1
  /\ posted

\* C2: the client's disconnect does not cancel the pipeline context, and
\* what every stage returns, hence which stages run and whether the comment
\* is posted, is decided by the callee's answer and the pipeline's own
\* deadline alone, as it is for a client that stays connected.
C2_DisconnectNoEffect ==
  /\ (reqCtx = "disconnected" /\ ~expired) => ~PipelineCtxDone
  /\ \A i \in 1..Len(trace) :
       (trace[i].ev = "return" /\ trace[i].stage \in FatalStages)
         => trace[i].ok = (trace[i].good /\ ~trace[i].deadline)
  /\ (pc = "responded" /\ Triggered)
       => ( (response.status = 200 /\ posted)
              <=> \A s \in FatalStages :
                    \E i \in 1..Len(trace) :
                      IsReturn(trace[i], s) /\ trace[i].good /\ ~trace[i].deadline )

C2_Witness ==
  /\ reqCtx = "disconnected"
  /\ pc = "responded"
  /\ posted
  /\ response.status = 200

\* C3: the stages start in the order snapshot, describe, review, collect,
\* scan, synthesize, post; a stage starts only when the stage before it has
\* returned its result; starts and returns alternate, so no two stages are
\* in progress together.
C3_StrictOrder ==
  /\ Len(trace) <= 2 * Len(Stages)
  /\ (phase = "inflight") <=> (Len(trace) % 2 = 1)
  /\ \A i \in 1..Len(trace) :
       IF i % 2 = 1
       THEN /\ trace[i].ev = "start"
            /\ trace[i].stage = Stages[(i + 1) \div 2]
            /\ (i > 1 => trace[i - 1].ok)
       ELSE /\ trace[i].ev = "return"
            /\ trace[i].stage = trace[i - 1].stage

C3_Witness ==
  /\ Len(trace) = 2 * Len(Stages)
  /\ \A i \in 1..Len(Stages) : HasStart(Stages[i]) /\ HasReturn(Stages[i], TRUE)

\* C4: when a fatal stage fails the pipeline ends there: nothing is started
\* after it, no later service is called, no comment is posted and the
\* webhook is answered 500; after a failed describe no scan runs.
C4_FatalAborts ==
  \A i \in 1..Len(trace) :
    ( /\ trace[i].ev = "return"
      /\ trace[i].stage \in FatalStages
      /\ (~trace[i].good \/ trace[i].deadline) )
    => /\ ~trace[i].ok
       /\ i = Len(trace)
       /\ Resolved
       /\ perr = trace[i].stage
       /\ ~posted
       /\ \A t \in StageSet :
            StageIndex(t) > StageIndex(trace[i].stage)
              => /\ ~HasStart(t)
                 /\ (t \in Services => calls[t] = 0)
       /\ (pc = "responded" => response.status = 500)
       /\ (trace[i].stage = "describe"
             => calls["scan"] = 0 /\ svc = SvcIdle /\ calls["post"] = 0)

C4_Witness ==
  /\ HasReturn("describe", FALSE)
  /\ pc = "responded"
  /\ response.status = 500
  /\ calls["scan"] = 0

\* C5: the scan stage returns no error: whatever fails in it (the walk, the
\* request, the transport, the status, the decoding), it returns a scan
\* output, the heuristic markdown with zero severity, and the pipeline goes
\* on to synthesis; every other stage's failure is an error.
C5_ScanNeverErrors ==
  /\ perr \notin {"collect", "scan"}
  /\ \A i \in 1..Len(trace) :
       /\ (trace[i].ev = "return" /\ trace[i].stage \in {"collect", "scan"})
            => trace[i].ok
       /\ IsReturn(trace[i], "scan")
            => /\ semgrep # NoScan
               /\ (~trace[i].good \/ trace[i].deadline)
                    => semgrep = generateHeuristicOutput
               /\ (i = Len(trace) => pc = "synthesize")
       /\ ( /\ trace[i].ev = "return"
            /\ trace[i].stage \notin {"collect", "scan"}
            /\ (~trace[i].good \/ trace[i].deadline) )
            => ~trace[i].ok

C5_Witness ==
  /\ calls["scan"] = 1
  /\ \E i \in 1..Len(trace) : IsReturn(trace[i], "scan") /\ ~trace[i].good
  /\ semgrep = generateHeuristicOutput
  /\ posted

\* Every configuration was tried and every attempt failed.
AllConfigsFailed ==
  /\ svc.pc = "done"
  /\ Len(svc.log) = Len(semgrepConfigs)
  /\ \A i \in 1..Len(svc.log) : svc.log[i].err

\* The static best-practice bodies: the scan service's, which the scan
\* stage forwards when the exchange succeeded, and the scan client's own.
HeuristicBodies == {generateFallbackMarkdown, StaticMd(HeuristicText)}

\* C6: when all three configurations fail inside the scan service, the scan
\* stage still returns, with the static best-practice markdown (the
\* service's when its answer arrived, the client's own otherwise) and zero
\* severity; the pipeline goes on, the synthesis request carries that
\* markdown and that severity, and the comment is posted when synthesis and
\* post succeed.
C6_ScanOutage ==
  (AllConfigsFailed /\ HasReturn("scan", TRUE))
    => /\ semgrep.findings_markdown \in HeuristicBodies
       /\ \A i \in 1..Len(trace) :
            IsReturn(trace[i], "scan")
              => semgrep.findings_markdown
                   = IF trace[i].good /\ ~trace[i].deadline
                     THEN generateFallbackMarkdown
                     ELSE StaticMd(HeuristicText)
       /\ semgrep.severity = ZeroSeverity
       /\ perr \notin {"collect", "scan"}
       /\ (IsReturn(trace[Len(trace)], "scan") => pc = "synthesize")
       /\ payload["synthesize"].sent
            => /\ payload["synthesize"].semgrep_markdown = semgrep.findings_markdown
               /\ payload["synthesize"].semgrep_severity = ZeroSeverity
       /\ (HasReturn("synthesize", TRUE) /\ HasReturn("post", TRUE))
            => posted /\ payload["post"].body = summary

C6_Witness ==
  /\ AllConfigsFailed
  /\ \E i \in 1..Len(trace) :
       IsReturn(trace[i], "scan") /\ trace[i].good /\ ~trace[i].deadline
  /\ pc = "responded"
  /\ posted

\* C7: a POST whose event's action is none of opened, reopened, synchronize
\* is answered 200 "ignored"; nothing is cloned and no service is called.
C7_IgnoredAction ==
  ( /\ pc # "idle"
    /\ req.method = "POST" /\ req.bodyOK
    /\ req.action \notin TriggerActions )
  => /\ pc = "responded"
     /\ response = [status |-> 200, body |-> "ignored"]
     /\ NothingStarted
     /\ meta = NoMeta

C7_Witness ==
  /\ pc = "responded"
  /\ req = [method |-> "POST", bodyOK |-> TRUE, action |-> "closed"]
  /\ response.body = "ignored"

\* C8: a method other than POST is answered 405 "method not allowed", a
\* POST whose body does not decode 400; neither starts a stage.
C8_BadRequests ==
  /\ (pc # "idle" /\ req.method # "POST")
       => /\ pc = "responded"
          /\ response = [status |-> 405, body |-> "method not allowed"]
          /\ NothingStarted
  /\ (pc # "idle" /\ req.method = "POST" /\ ~req.bodyOK)
       => /\ pc = "responded"
          /\ response.status = 400
          /\ NothingStarted

C8_Witness ==
  /\ pc = "responded"
  /\ req.method = "POST" /\ ~req.bodyOK
  /\ response.status = 400

\* C9: for a triggering webhook nothing is written before processPR has
\* returned; the response is 200 "processed" exactly when every stage, the
\* post included, returned a result, and 500 otherwise.
C9_ResponseAfterResolve ==
  Triggered =>
    /\ (pc # "responded" => response = NoResponse)
    /\ pc = "responded"
         => /\ trace # <<>>
            /\ trace[Len(trace)].ev = "return"
            /\ phase = "ready"
            /\ ( response = [status |-> 200, body |-> "processed"]
                   <=> \A s \in StageSet : HasReturn(s, TRUE) )
            /\ ( (\E s \in StageSet : ~HasReturn(s, TRUE))
                   => response.status = 500 )

C9_Witness ==
  /\ Triggered
  /\ pc = "responded"
  /\ HasReturn("post", FALSE)
  /\ response.status = 500

\* An attempt that succeeded with at least one finding.
Hit(e) == ~e.err /\ Len(e.results) > 0

\* C10: the scan service tries p/default, p/security-audit, p/ci in that
\* order, one RPC each; the first attempt that succeeds with a finding is
\* the last one made, and its findings are the ones the response is shaped
\* from.
C10_ConfigOrder ==
  /\ Len(svc.log) <= Len(semgrepConfigs)
  /\ (svc.pc = "loop" => svc.idx = Len(svc.log) + 1)
  /\ \A i \in 1..Len(svc.log) :
       /\ svc.log[i].config = semgrepConfigs[i]
       /\ Hit(svc.log[i])
            => /\ i = Len(svc.log)
               /\ svc.pc = "done"
               /\ svc.parsed = svc.log[i].results
               /\ svc.resp.status = "success"
               /\ svc.resp.findings_count = Len(svc.log[i].results)
               /\ svc.resp.severity = SeveritySummary(svc.log[i].results)
               /\ svc.resp.findings_markdown
                    = formatSemgrepMarkdown(svc.log[i].results)
       /\ (i < Len(svc.log) => ~Hit(svc.log[i]))

C10_Witness ==
  /\ Len(svc.log) = 2
  /\ svc.log[1].err
  /\ Hit(svc.log[2])
  /\ svc.pc = "done"
  /\ payload["scan"].files # {}

\* Every configuration was tried and none yielded a finding.
AllTriedNoHit ==
  /\ svc.pc = "done"
  /\ Len(svc.log) = Len(semgrepConfigs)
  /\ \A i \in 1..Len(svc.log) : ~Hit(svc.log[i])

\* C11: when every configuration was tried and none yielded a finding, the
\* response is error-shaped (status error, the fallback markdown, zero
\* severity) exactly when some attempt failed, and otherwise success-shaped
\* with the "no issues found" markdown, zero severity and a zero count; an
\* attempt's failure never makes the response error-shaped when a later
\* configuration yields findings.
C11_EmptyOutcomeShape ==
  /\ AllTriedNoHit
       => IF \E i \in 1..Len(svc.log) : svc.log[i].err
          THEN /\ svc.resp.status = "error"
               /\ svc.resp.findings_markdown = generateFallbackMarkdown
               /\ svc.resp.severity = ZeroSeverity
          ELSE /\ svc.resp.status = "success"
               /\ svc.resp.error = ""
               /\ svc.resp.findings_markdown
                    = StaticMd("No security issues found by Semgrep.")
               /\ svc.resp.severity = ZeroSeverity
               /\ svc.resp.findings_count = 0
  /\ (svc.pc = "done" /\ \E i \in 1..Len(svc.log) : Hit(svc.log[i]))
       => /\ svc.resp.status = "success"
          /\ svc.resp.error = ""
          /\ svc.resp.findings_markdown.kind = "findings"
          /\ svc.resp.findings_count > 0

C11_Witness ==
  /\ AllTriedNoHit
  /\ svc.log[1].err /\ ~svc.log[2].err /\ ~svc.log[3].err
  /\ svc.resp.status = "error"

\* The scan service has answered a request whose file map was empty.
EmptyMapAnswered == svc.pc # "idle" /\ payload["scan"].files = {}

\* C12 as stated: a request with an empty file map is answered with the
\* success response "no code files found", zero severity, and no RPC is made.
C12_EmptyMapSuccess ==
  EmptyMapAnswered
    => /\ svc.pc = "done"
       /\ svc.resp.status = "success"
       /\ svc.resp.findings_markdown = StaticMd("No code files found to scan.")
       /\ svc.resp.severity = ZeroSeverity
       /\ svc.log = <<>>

\* C12, amended: a request with an empty file map makes no RPC; when its
\* repo_path is not empty it is answered with the success response "no code
\* files found", zero severity, and when its repo_path is empty it is
\* rejected before the file map is looked at.
C12_EmptyMapWithPath ==
  EmptyMapAnswered
    => /\ svc.log = <<>>
       /\ IF Len(payload["scan"].repo_path) > 0
          THEN /\ svc.pc = "done"
               /\ svc.resp.status = "success"
               /\ svc.resp.findings_markdown = StaticMd("No code files found to scan.")
               /\ svc.resp.severity = ZeroSeverity
               /\ svc.resp.findings_count = 0
          ELSE /\ svc.pc = "rejected"
               /\ svc.resp = NoScanResponse

C12_Witness ==
  /\ EmptyMapAnswered
  /\ Len(payload["scan"].repo_path) > 0
  /\ svc.pc = "done"
  /\ svc.resp.findings_markdown = StaticMd("No code files found to scan.")

SeveritySum(sev) == sev.blocker + sev.critical + sev.major + sev.minor + sev.info

\* C14: in every scan response the five severity counts sum to the number
\* of findings classified, which is findings_count; the sum is zero exactly
\* when no finding is reported.
C14_SeveritySum ==
  svc.pc = "done"
    => /\ SeveritySum(svc.resp.severity) = Len(svc.parsed)
       /\ svc.resp.findings_count = Len(svc.parsed)
       /\ (SeveritySum(svc.resp.severity) = 0 <=> svc.resp.findings_count = 0)
       /\ (svc.resp.findings_count = 0 <=> svc.resp.findings_markdown.kind = "static")

C14_Witness ==
  /\ svc.pc = "done"
  /\ Len(svc.parsed) = 2
  /\ svc.parsed[1].severity = "HIGH" /\ svc.parsed[2].severity = "note"
  /\ svc.resp.findings_count = 2
  /\ SeveritySum(svc.resp.severity) = 2

\* The mapping the claim states, on the raw labels of the model.
ClaimedBucket(l) ==
  CASE l \in {"blocker", "BLOCKER"} -> "blocker"
    [] l \in {"ERROR", "critical"} -> "critical"
    [] l \in {"Warning", "MAJOR"} -> "major"
    [] l \in {"note", "MINOR"} -> "minor"
    [] OTHER -> "info"

\* C15: whatever the spelling of a finding's raw label, the finding is
\* counted in exactly one bucket: blocker for blocker, critical for error
\* and critical, major for warning and major, minor for note and minor, info
\* for every other label, the empty one included.
C15_Normalization ==
  (svc.pc = "done" /\ Len(svc.parsed) > 0)
    => /\ \A b \in {"blocker", "critical", "major", "minor", "info"} :
            svc.resp.severity[b]
              = Cardinality({i \in 1..Len(svc.parsed) :
                               ClaimedBucket(svc.parsed[i].severity) = b})
       /\ SeveritySum(svc.resp.severity) = Len(svc.parsed)

C15_Witness ==
  /\ svc.pc = "done"
  /\ Len(svc.parsed) = 2
  /\ svc.parsed[1].severity = "ERROR" /\ svc.parsed[2].severity = ""
  /\ svc.resp.severity
       = [blocker |-> 0, critical |-> 1, major |-> 0, minor |-> 0, info |-> 1]

\* The walk ended without an error and no file passed the filters.
NoFileSurvived ==
  /\ HasReturn("collect", TRUE)
  /\ ~collected.err
  /\ collected.files = {}

\* C13: when no file of the snapshot passes the collector's filters, the
\* scan stage's output is the scan service's answer to an empty file map,
\* the "no code files found" markdown with zero severity, and not the
\* scan-failure output.
C13_EmptyMapHandledByService ==
  (NoFileSurvived /\ HasReturn("scan", TRUE))
    => /\ semgrep.findings_markdown = StaticMd("No code files found to scan.")
       /\ semgrep.severity = ZeroSeverity
       /\ semgrep # generateHeuristicOutput

\* The claim's skip set and allow set, the latter with the spellings of the
\* model's files.
ClaimedSkipDirs ==
  {".git", "node_modules", "vendor", "venv", "__pycache__", ".venv", "dist", "build"}

ClaimedExtSpellings ==
  {".go", ".py", ".js", ".ts", ".jsx", ".tsx", ".java", ".rb", ".php", ".cs",
   ".c", ".cpp", ".cc", ".h", ".hpp", ".PY"}

UnderClaimedSkipDir(f) == \E i \in 1..Len(f.dirs) : f.dirs[i] \in ClaimedSkipDirs

\* The collector has returned a map.
Collected == HasReturn("collect", TRUE) /\ ~collected.err

\* C16: every key of the collected file map is the path, relative to the
\* snapshot root, of one file of the tree that lies under no directory of
\* the skip set and whose extension, lower-cased, is in the allow set; the
\* map sent to the scan service is that map.
C16_CollectedKeys ==
  /\ \A k \in collected.files :
       /\ Cardinality({f \in tree : <<f.dirs, f.base>> = k}) = 1
       /\ \A f \in tree :
            <<f.dirs, f.base>> = k
              => ~UnderClaimedSkipDir(f) /\ f.ext \in ClaimedExtSpellings
  /\ payload["scan"].sent => payload["scan"].files = collected.files

C16_Witness ==
  /\ Collected
  /\ tree = {FGo, FReadme, FVendored, FUpper, FNested}
  /\ collected.files = {<<<<>>, "main.go">>, <<<<"src">>, "App.PY">>}
  /\ payload["scan"].sent

\* C17: no file larger than 1 MiB is in the file map the collector builds,
\* nor in the one sent to the scan service.
C17_NoBigFile ==
  \A f \in tree :
    f.big => /\ <<f.dirs, f.base>> \notin collected.files
             /\ (payload["scan"].sent => <<f.dirs, f.base>> \notin payload["scan"].files)

\* The directory names of the model that begin with a dot.
DotNames == {".git", ".venv", ".github"}

\* C18: no file under a directory whose name begins with a dot is in the
\* collected file map.
C18_DotDirsSkipped ==
  \A f \in tree :
    (\E i \in 1..Len(f.dirs) : f.dirs[i] \in DotNames)
      => <<f.dirs, f.base>> \notin collected.files

\* C19: a file that cannot be read does not make the collection fail; the
\* collector fails only when the walk itself reports an error, and the map
\* it returns holds every readable file that passes the filters and no
\* unreadable one.
C19_UnreadableSkipped ==
  /\ \A i \in 1..Len(trace) :
       IsReturn(trace[i], "collect") => (collected.err <=> ~trace[i].good)
  /\ Collected
       => \A f \in tree :
            /\ (~UnderClaimedSkipDir(f) /\ f.ext \in ClaimedExtSpellings /\ f.readable)
                 => <<f.dirs, f.base>> \in collected.files
            /\ ~f.readable => <<f.dirs, f.base>> \notin collected.files

C19_Witness ==
  /\ Collected
  /\ FSecret \in tree /\ FGo \in tree
  /\ <<<<>>, "main.go">> \in collected.files
  /\ <<<<>>, "secret.py">> \notin collected.files

\* C20: the snapshot directory is a function of the repository's owner, its
\* name and the pull request's number, whatever the branch; a clone is only
\* ever started after the removal of that directory, and after a successful
\* snapshot the directory holds the clone's files and nothing an earlier
\* run left there.
C20_SnapshotDir ==
  /\ HasReturn("snapshot", TRUE)
       => /\ meta.local_path
               = <<"tmp", meta.repo_owner, meta.repo_name, meta.pr_number>>
          /\ FStale \notin tree
          /\ tree \in Trees
  /\ HasReturn("snapshot", FALSE) => meta.local_path = <<>>
  /\ (HasStart("snapshot") /\ FStale \in tree) => ~HasReturn("snapshot", TRUE)

C20_Witness ==
  /\ clones = 2
  /\ HasReturn("snapshot", TRUE)
  /\ meta.pr_number = 7 /\ meta.source_branch = "fix-y"
  /\ meta.local_path = <<"tmp", meta.repo_owner, meta.repo_name, 7>>
  /\ tree = {FReadme, FVendored}

\* ------------------------------------------------------------------------
\* C21: the snapshot clones from the URL built from the event's head
\* coordinates (pull_request.head.repo.owner.login and .name, the fork) at the
\* branch head.ref, into the directory named after the base owner, the base
\* name and the pull request number.
C21_CloneFromHead ==
  HasStart("snapshot") =>
    \E ev \in Events :
      /\ meta.repo_owner = ev.repoOwner /\ meta.repo_name = ev.repoName
      /\ meta.pr_number = ev.number /\ meta.source_branch = ev.headRef
      /\ cloneCmd.url = <<"https://github.com", ev.headOwner, ev.headName>>
      /\ cloneCmd.branch = ev.headRef
      /\ cloneCmd.dest = <<"tmp", ev.repoOwner, ev.repoName, ev.number>>

\* The (repo_owner, repo_name, pr_number) of a pipeline's pull request.
Triple(p) == <<runs[p].meta.repo_owner, runs[p].meta.repo_name, runs[p].meta.pr_number>>

RaceDir(p) == Dest(runs[p].meta)

RaceOver(p) == runs[p].step \in {"done", "failed"}

\* ------------------------------------------------------------------------
\* C22: two concurrent pipelines whose pull requests differ in (repo_owner,
\* repo_name, pr_number) own different snapshot directories: the
\* remove-then-clone of one never removes or overwrites the directory the other
\* is cloning into or collects from.
C22_DistinctDirs ==
  \A p \in Pipes :
    Triple(p) # Triple(Other(p)) =>
      /\ RaceDir(p) # RaceDir(Other(p))
      /\ Other(p) \notin disk[RaceDir(p)]
      /\ (runs[p].step \in {"cloning", "done"} => p \in disk[RaceDir(p)])

\* ------------------------------------------------------------------------
\* C23: two pipelines of the same pull request share one directory and the
\* later one wins: however their remove and clone steps interleave, the
\* pipeline whose snapshot stage started later completes its clone and the
\* directory ends up holding that pipeline's content.
\* A failed network and a removal that failed are the environment's doing
\* and no pipeline's: they are set aside.
C23_LaterWins ==
  \A p \in Pipes :
    ( /\ Triple(p) = Triple(Other(p))
      /\ RaceOver(p) /\ RaceOver(Other(p))
      /\ runs[p].order > runs[Other(p)].order
      /\ runs[p].cause # "net"
      /\ ~runs[p].kept )
    => /\ runs[p].step = "done"
       /\ disk[RaceDir(p)] = {p}

\* ------------------------------------------------------------------------
\* C24: the review request carries as description_markdown exactly the
\* markdown the describe stage returned, and the review is never called
\* without a describe that completed.
C24_ReviewGetsDescription ==
  /\ HasStart("review") =>
       /\ HasReturn("describe", TRUE)
       /\ payload["review"].sent
  /\ payload["review"].sent =>
       /\ HasStart("review")
       /\ desc \in DescriptionOutputs
       /\ payload["review"].description_markdown = desc

C24_Witness ==
  /\ HasReturn("review", TRUE)
  /\ payload["review"].description_markdown = "desc_b"

\* ------------------------------------------------------------------------
\* C25: the synthesis request carries exactly the description markdown, the
\* review markdown, the scan's markdown and the scan's severity counts, and
\* the body of the posted comment is exactly the synthesis markdown.
C25_SynthesisInputs ==
  /\ payload["synthesize"].sent =>
       /\ HasReturn("scan", TRUE)
       /\ desc \in DescriptionOutputs /\ review \in ReviewOutputs
       /\ payload["synthesize"].description_markdown = desc
       /\ payload["synthesize"].review_markdown = review
       /\ payload["synthesize"].semgrep_markdown = semgrep.findings_markdown
       /\ payload["synthesize"].semgrep_severity = semgrep.severity
       /\ DOMAIN payload["synthesize"] =
            {"sent", "pr", "description_markdown", "review_markdown",
             "semgrep_markdown", "semgrep_severity"}
  /\ payload["post"].sent =>
       /\ HasReturn("synthesize", TRUE)
       /\ summary \in SummaryOutputs
       /\ payload["post"].body = summary

C25_Witness ==
  /\ posted
  /\ payload["post"].body = "final_b"
  /\ payload["synthesize"].semgrep_markdown.kind = "findings"

\* The adapter has answered its current request.
AdpAnswered == adp.pc \in {"done", "failed"}

\* A request in the full-metadata shape, its three coordinates given.
FullRequest(raw) ==
  raw.shape = "full" /\ raw.owner # "" /\ raw.repo # "" /\ raw.pr_number # 0

\* A request in the minimal shape {pr: number, body}.
MinimalRequest(raw) == raw.shape = "simple" /\ raw.pr # 0

\* A body in neither shape: no JSON, or no pull request number in it.
NeitherShape(raw) ==
  \/ raw.shape \in {"garbage", "empty"}
  \/ raw.shape = "full" /\ raw.pr_number = 0
  \/ raw.shape = "simple" /\ raw.pr = 0

\* A request in one of the shapes whose owner or repository is given
\* neither by the request nor by the configuration.
Unresolvable(cfg, raw) ==
  \/ /\ raw.shape = "full" /\ raw.pr_number # 0
     /\ \/ raw.owner = "" /\ cfg.owner = ""
        \/ raw.repo = "" /\ cfg.repo = ""
  \/ /\ MinimalRequest(raw)
     /\ (cfg.owner = "" \/ cfg.repo = "")

\* ------------------------------------------------------------------------
\* C26: the adapter accepts both shapes: a full-metadata request is posted to
\* (pr.repo_owner, pr.repo_name, pr.pr_number), a minimal {pr, body} request
\* to the configured default repository; when owner or repository cannot be
\* resolved, or the body is in neither shape, the answer is 400 and the
\* source-control API is not called.
C26_BothShapes ==
  /\ (AdpAnswered /\ FullRequest(adp.raw)) =>
       /\ adp.apiCalls = 1
       /\ adp.status \in {200, 502}
       /\ adp.target = [ok |-> TRUE, owner |-> adp.raw.owner, repo |-> adp.raw.repo,
                        pr |-> adp.raw.pr_number, body |-> adp.raw.body]
  /\ (AdpAnswered /\ MinimalRequest(adp.raw) /\ ~Unresolvable(adp.cfg, adp.raw)) =>
       /\ adp.apiCalls = 1
       /\ adp.status \in {200, 502}
       /\ adp.target = [ok |-> TRUE, owner |-> adp.cfg.owner, repo |-> adp.cfg.repo,
                        pr |-> adp.raw.pr, body |-> adp.raw.body]
  /\ (adp.pc # "idle" /\ (NeitherShape(adp.raw) \/ Unresolvable(adp.cfg, adp.raw))) =>
       /\ adp.apiCalls = 0
       /\ adp.target = NoTarget
       /\ AdpAnswered => (adp.pc = "failed" /\ adp.status = 400)

C26_Witness ==
  /\ Len(adp.log) = 2
  /\ FullRequest(adp.log[1].raw) /\ adp.log[1].status = 200
  /\ adp.log[1].target.owner = "acme" /\ adp.cfg.owner = "dflt-o"
  /\ MinimalRequest(adp.log[2].raw) /\ adp.log[2].status = 200
  /\ adp.log[2].target.owner = "dflt-o"

\* The orders in which a request passes through the adapter's states.
AdpPaths ==
  { <<"parsing", "failed">>,
    <<"parsing", "resolving_target", "failed">>,
    <<"parsing", "resolving_target", "posting", "done">>,
    <<"parsing", "resolving_target", "posting", "failed">> }

IsPrefix(s, t) == Len(s) <= Len(t) /\ \A i \in 1..Len(s) : s[i] = t[i]

\* ------------------------------------------------------------------------
\* C27: a request passes through parsing, resolving_target, posting and
\* then done or failed, in that order; the source-control API is called at
\* most once per request and only after the target is resolved; a failure of
\* that call is answered 502; and a request is handled the same way whatever
\* the requests before it were.
C27_RequestStates ==
  /\ adp.pc # "idle" =>
       /\ \E t \in AdpPaths : IsPrefix(adp.path, t)
       /\ adp.path[Len(adp.path)] = adp.pc
       /\ AdpAnswered => adp.path \in AdpPaths
  /\ adp.apiCalls <= 1
  /\ adp.apiCalls = 1 <=>
       (\E i \in 2..Len(adp.path) :
          adp.path[i] = "posting" /\ adp.path[i - 1] = "resolving_target")
  /\ adp.apiCalls = 1 => adp.target.ok
  /\ adp.api = "error" => (adp.pc = "failed" /\ adp.status = 502)
  /\ adp.status = 502 => adp.api = "error"
  /\ \A i, j \in 1..Len(adp.log) :
       adp.log[i].raw = adp.log[j].raw =>
         /\ adp.log[i].target = adp.log[j].target
         /\ (adp.log[i].api = "none") <=> (adp.log[j].api = "none")
         /\ adp.log[i].api = adp.log[j].api => adp.log[i] = adp.log[j]

C27_Witness ==
  /\ Len(adp.log) = 2
  /\ adp.log[1].raw = adp.log[2].raw
  /\ adp.log[1].api = "error" /\ adp.log[1].status = 502
  /\ adp.log[2].api = "ok" /\ adp.log[2].status = 200

\* The scan service took the request in: a POST whose body decoded and
\* names a repo_path.
ScanAccepted == svc.pc \in {"loop", "done"}

\* ------------------------------------------------------------------------
\* C28: every accepted /scan request is answered HTTP 200 with status
\* "success" or "error", also when the scan failed; the status is "error"
\* exactly when the error field is not empty, and an answer with status
\* "error" has all severity counts zero and findings_count 0.
C28_AlwaysOK ==
  /\ svc.http # 0 <=> svc.pc \in {"done", "rejected"}
  /\ (ScanAccepted /\ svc.http # 0) =>
       /\ svc.http = 200
       /\ svc.resp.status \in {"success", "error"}
       /\ (svc.resp.status = "error") <=> (svc.resp.error # "")
       /\ svc.resp.status = "error" =>
            /\ \A b \in DOMAIN svc.resp.severity : svc.resp.severity[b] = 0
            /\ svc.resp.findings_count = 0
  /\ svc.pc = "rejected" => svc.http = 400

C28_Witness ==
  /\ svc.pc = "done"
  /\ svc.http = 200
  /\ svc.resp.status = "error"
  /\ svc.resp.error # ""

\* The positions of a list's findings that fall into a bucket.
BucketPositions(rs, b) == { i \in 1..Len(rs) : ClaimedBucket(rs[i].severity) = b }

\* The k-th finding of a bucket, in the order of the list.
KthOfBucket(rs, b, k) ==
  rs[CHOOSE i \in BucketPositions(rs, b) :
       Cardinality({ j \in BucketPositions(rs, b) : j <= i }) = k]

\* How many findings a bucket's section lists at most, by the claim.
ClaimedLimit(b, n) ==
  CASE b = "minor" -> 5
    [] b = "info" -> 3
    [] OTHER -> n

ClaimedOrder == <<"blocker", "critical", "major", "minor", "info">>

OrderIndex(b) == CHOOSE i \in 1..Len(ClaimedOrder) : ClaimedOrder[i] = b

\* ------------------------------------------------------------------------
\* C29: the findings markdown has one section per non-empty bucket and none
\* for an empty one, in the order blocker, critical, major, minor, info; the
\* blocker, critical and major sections list every finding of the bucket, the
\* minor section at most the first 5, the info section at most the first 3;
\* the "and N more" line is there exactly when the bucket exceeds its limit,
\* with N the bucket's size minus the limit.
C29_Sections ==
  (svc.pc = "done" /\ Len(svc.parsed) > 0) =>
    LET rs   == svc.parsed
        secs == svc.resp.findings_markdown.sections
    IN  /\ \A i \in 1..Len(secs) : secs[i].bucket \in DOMAIN ZeroSeverity
        /\ \A i, j \in 1..Len(secs) :
             i < j => OrderIndex(secs[i].bucket) < OrderIndex(secs[j].bucket)
        /\ \A b \in DOMAIN ZeroSeverity :
             (BucketPositions(rs, b) # {}) <=>
               (\E i \in 1..Len(secs) : secs[i].bucket = b)
        /\ \A i \in 1..Len(secs) :
             LET b   == secs[i].bucket
                 n   == Cardinality(BucketPositions(rs, b))
                 lim == ClaimedLimit(b, n)
             IN  /\ Len(secs[i].items) = (IF n > lim THEN lim ELSE n)
                 /\ \A k \in 1..Len(secs[i].items) :
                      secs[i].items[k] = KthOfBucket(rs, b, k)
                 /\ secs[i].more = (IF n > lim THEN n - lim ELSE 0)

C29_Witness ==
  /\ svc.pc = "done"
  /\ Len(svc.resp.findings_markdown.sections) = 3
  /\ svc.resp.findings_markdown.sections[1].bucket = "critical"
  /\ svc.resp.findings_markdown.sections[2].bucket = "minor"
  /\ svc.resp.findings_markdown.sections[3].more = 1

\* ------------------------------------------------------------------------
\* C30: the counts table has its columns in the order blocker, critical,
\* major, minor, info, and a count is bold if and only if it is not zero and
\* its bucket is blocker, critical or major; minor and info counts are never
\* bold.
C30_CountsTable ==
  (svc.pc = "done" /\ Len(svc.parsed) > 0) =>
    LET table == svc.resp.findings_markdown.table
    IN  /\ Len(table) = Len(ClaimedOrder)
        /\ \A i \in 1..Len(table) :
             /\ table[i].n = Cardinality(BucketPositions(svc.parsed, ClaimedOrder[i]))
             /\ table[i].bold <=>
                  (table[i].n # 0 /\ ClaimedOrder[i] \in {"blocker", "critical", "major"})

C30_Witness ==
  /\ svc.pc = "done"
  /\ Len(svc.parsed) = 2
  /\ svc.resp.findings_markdown.table[1].bold
  /\ svc.resp.findings_markdown.table[4].n = 1
  /\ ~svc.resp.findings_markdown.table[4].bold

\* The permutations of 1..n.
Perms(n) == { f \in [1..n -> 1..n] : \A i, j \in 1..n : f[i] = f[j] => i = j }

\* A list rearranged by a permutation of its positions.
Permuted(rs, f) == [i \in 1..Len(rs) |-> rs[f[i]]]

\* The items are findings of the list, at strictly increasing positions.
InArrivalOrder(items, rs) ==
  \E pos \in [1..Len(items) -> 1..Len(rs)] :
    /\ \A k \in 1..Len(items) : rs[pos[k]] = items[k]
    /\ \A k, l \in 1..Len(items) : k < l => pos[k] < pos[l]

\* ------------------------------------------------------------------------
\* C31: the severity counts are the same for every permutation of the
\* findings list, and within each section of the markdown the findings appear
\* in the relative order in which they arrived in the list.
C31_PermutationInvariant ==
  (svc.pc = "done" /\ Len(svc.parsed) > 0) =>
    \A f \in Perms(Len(svc.parsed)) :
      LET q == Permuted(svc.parsed, f)
          secs == formatSemgrepMarkdown(q).sections
      IN  /\ SeveritySummary(q) = svc.resp.severity
          /\ \A i \in 1..Len(secs) :
               /\ InArrivalOrder(secs[i].items, q)
               /\ \A k \in 1..Len(secs[i].items) :
                    ClaimedBucket(secs[i].items[k].severity) = secs[i].bucket

C31_Witness ==
  /\ svc.pc = "done"
  /\ Len(svc.parsed) = 2
  /\ svc.parsed[1].severity = "note" /\ svc.parsed[2].severity = "MINOR"
  /\ svc.resp.severity.minor = 2
  /\ svc.resp.findings_markdown.sections[1].items = svc.parsed

\* ------------------------------------------------------------------------
\* C32: whatever HTTP_TIMEOUT_MINUTES is (unset, no number, zero, negative
\* or any positive integer), the total timeout of the orchestrator's shared
\* HTTP client is at least 15 minutes.
C32_TimeoutFloor ==
  client.pc = "serving" => client.timeout >= 15

\* A stage returned after the pipeline deadline had passed.
ReturnedLate(i) == trace[i].ev = "return" /\ trace[i].deadline

\* ------------------------------------------------------------------------
\* C33: every stage runs under the one deadline of the pipeline: once it
\* has passed no fatal stage succeeds, so the pipeline fails and no comment is
\* posted, also when it passes during the scan stage, whose errors are
\* swallowed.
C33_DeadlineEndsPipeline ==
  /\ \A i \in 1..Len(trace) :
       (ReturnedLate(i) /\ trace[i].stage \in FatalStages) => ~trace[i].ok
  /\ \A i, j \in 1..Len(trace) :
       (i < j /\ ReturnedLate(i) /\ trace[j].ev = "return") => ReturnedLate(j)
  /\ (\E i \in 1..Len(trace) : ReturnedLate(i)) =>
       /\ ~posted
       /\ pc \notin {"idle", "ignored"}
       /\ pc = "responded" => response.status = 500
       /\ pc \in {"resolved", "responded"} => perr \in FatalStages

C33_Witness ==
  /\ pc = "responded"
  /\ response.status = 500
  /\ \E i \in 1..Len(trace) :
       /\ IsReturn(trace[i], "scan") /\ trace[i].deadline /\ trace[i].ok
  /\ \E i \in 1..Len(trace) :
       /\ IsReturn(trace[i], "synthesize") /\ trace[i].good /\ ~trace[i].ok

\* ------------------------------------------------------------------------
\* C34: the 500 answered to the webhook's caller depends neither on the
\* stage that failed nor on anything a downstream service returned: any two
\* failing pipelines get the same status and the same body.
C34_UniformFailure ==
  (pc = "responded" /\ Triggered /\ (perr # "" \/ response.status = 500)) =>
    /\ perr \in FatalStages
    /\ response = [status |-> 500, body |-> "processing error"]

C34_Witness ==
  /\ pc = "responded"
  /\ perr = "post"
  /\ desc = "desc_b" /\ summary = "final_b"
  /\ semgrep.findings_markdown.kind = "findings"
  /\ response.status = 500

\* ------------------------------------------------------------------------
\* C35: once built from the webhook, the metadata is changed by the
\* snapshot stage only and in local_path only: describe, review, scan,
\* synthesize and post leave every field as it is and each receives the same
\* metadata, its local_path the snapshot's directory; a failed snapshot
\* leaves local_path empty.
C35_MetadataFrame ==
  Triggered =>
    /\ \E ev \in Events : [meta EXCEPT !.local_path = <<>>] = BuildMeta(ev)
    /\ meta.local_path =
         IF HasReturn("snapshot", TRUE)
         THEN <<"tmp", meta.repo_owner, meta.repo_name, meta.pr_number>>
         ELSE <<>>
    /\ \A s \in CallStages :
         payload[s].sent => (payload[s].pr = meta /\ HasReturn("snapshot", TRUE))
    /\ payload["scan"].sent =>
         /\ payload["scan"].repo_path = meta.local_path
         /\ payload["scan"].branch = meta.source_branch
         /\ HasReturn("snapshot", TRUE)

C35_Witness ==
  /\ posted
  /\ payload["scan"].sent
  /\ \A s \in CallStages : payload[s].pr.local_path = <<"tmp", "acme", "widget", 42>>

\* The ways an RPC attempt fails, by the claim: transport, status, decoding,
\* JSON-RPC error member, no content, content text not JSON.
ClaimedFailures == {"http", "status", "decode", "rpcerror", "nocontent", "parse"}

\* ------------------------------------------------------------------------
\* C36: within a scan every failed RPC attempt, whatever the failure, is
\* treated alike: the error is remembered, no findings are taken from the
\* attempt and the next configuration is tried; no failure ends the scan early.
C36_FailuresAlike ==
  /\ svc.pc = "loop" =>
       \A k \in ClaimedFailures, rs \in ListsOver(RawFindings, 1) :
         LET n == LoopPass(svc, [kind |-> k, results |-> rs])
         IN  /\ n.lastError
             /\ n.parsed = svc.parsed /\ n.parsed = <<>>
             /\ n.idx = svc.idx + 1
             /\ n.log[Len(n.log)].err /\ n.log[Len(n.log)].results = <<>>
             /\ n.pc = (IF svc.idx < Len(semgrepConfigs) THEN "loop" ELSE "done")
             /\ n = LoopPass(svc, [kind |-> "http", results |-> <<>>])
  /\ \A i \in 1..Len(svc.log) :
       svc.log[i].err =>
         /\ svc.lastError
         /\ svc.log[i].results = <<>>
         /\ svc.log[i].config = semgrepConfigs[i]
         /\ (i < Len(semgrepConfigs) /\ svc.pc = "done") => Len(svc.log) > i

C36_Witness ==
  /\ svc.pc = "done"
  /\ Len(svc.log) = 3
  /\ svc.log[1].err /\ svc.log[2].err /\ ~svc.log[3].err
  /\ Len(svc.parsed) = 1
  /\ svc.resp.status = "success"

\* ------------------------------------------------------------------------
\* C37: the observer logs the "webhook client disconnected" warning only
\* for a webhook whose client disconnected while the pipeline was in
\* progress; when the client stays connected until the response is written
\* no warning is logged.
C37_WarningOnlyOnDisconnect ==
  warned => reqCtx = "disconnected"

\* ------------------------------------------------------------------------
\* C38: for every findings list the five counts of the markdown's table
\* equal the five fields of the severity summary of the same response,
\* though each comes from a pass of its own over the findings.
C38_TableMatchesSummary ==
  (svc.pc = "done" /\ svc.resp.findings_markdown.kind = "findings") =>
    LET table == svc.resp.findings_markdown.table
        sev   == svc.resp.severity
    IN  /\ Len(table) = 5
        /\ table[1].n = sev.blocker
        /\ table[2].n = sev.critical
        /\ table[3].n = sev.major
        /\ table[4].n = sev.minor
        /\ table[5].n = sev.info
        /\ table[1].n + table[2].n + table[3].n + table[4].n + table[5].n
             = svc.resp.findings_count

C38_Witness ==
  /\ svc.pc = "done"
  /\ svc.resp.findings_markdown.kind = "findings"
  /\ svc.resp.severity.minor = 1 /\ svc.resp.severity.info = 1
  /\ svc.parsed[1].severity = "note" /\ svc.parsed[2].severity = "HIGH"

\* The scan stage's return on a 2xx answer whose body decoded, before the
\* deadline.
ScanDecoded ==
  /\ Len(trace) >= 10
  /\ trace[10].ev = "return" /\ trace[10].stage = "scan"
  /\ trace[10].good /\ ~trace[10].deadline

\* The service's answer carries an error and no markdown.
ErrorWithoutMarkdown ==
  svc.resp.error # "" /\ svc.resp.findings_markdown = StaticMd("")

\* C39: when the scan service answers 2xx with a decodable body, the scan
\* stage forwards the service's findings_markdown and severity unchanged,
\* except when the answer carries a non-empty error and an empty
\* findings_markdown: then it takes the heuristic markdown with all-zero
\* severity.  Heuristic markdown never goes with a non-zero severity.
C39_ForwardOrHeuristic ==
  /\ ScanDecoded =>
       IF ErrorWithoutMarkdown
       THEN /\ semgrep.findings_markdown = StaticMd(HeuristicText)
            /\ semgrep.severity = ZeroSeverity
       ELSE /\ semgrep.findings_markdown = svc.resp.findings_markdown
            /\ semgrep.severity = svc.resp.severity
  /\ semgrep.findings_markdown = StaticMd(HeuristicText) =>
       semgrep.severity = ZeroSeverity

\* An answer with an error, no markdown and a non-zero severity was
\* replaced by the heuristic output, which went on to the synthesis.
C39_Witness ==
  /\ ScanDecoded
  /\ ErrorWithoutMarkdown
  /\ svc.resp.severity # ZeroSeverity
  /\ semgrep = generateHeuristicOutput
  /\ pc = "synthesize" /\ phase = "inflight"
  /\ payload["synthesize"].sent

\* An answer with an error, a markdown and a non-zero severity was forwarded
\* as it came.
C39_ForwardedWithError ==
  /\ ScanDecoded
  /\ svc.resp.error # ""
  /\ svc.resp.findings_markdown = generateFallbackMarkdown
  /\ svc.resp.severity # ZeroSeverity
  /\ semgrep.findings_markdown = svc.resp.findings_markdown
  /\ semgrep.severity = svc.resp.severity

\* What the handler writes after processPR (pr.go:101-113).
FinalResponses ==
  { [status |-> 200, body |-> "processed"],
    [status |-> 500, body |-> "processing error"] }

\* C40: every pipeline started by a triggering webhook eventually resolves
\* and the handler eventually writes 200 "processed" or 500, given that each
\* stage's external call returns or is cut off at the deadline; no pipeline
\* stays in a stage forever.
C40_PipelineResponds ==
  (pc \in StageSet) ~> (pc = "responded" /\ response \in FinalResponses)

\* A pipeline one of whose calls was answered only after the deadline, and
\* so was cut off, has answered 500.
C40_Witness ==
  /\ Triggered
  /\ pc = "responded"
  /\ response = [status |-> 500, body |-> "processing error"]
  /\ expired
  /\ \E i \in 1..Len(trace) :
       /\ trace[i].ev = "return" /\ trace[i].stage \in CallStages
       /\ trace[i].good /\ trace[i].deadline /\ ~trace[i].ok

====
